---- MODULE Spec2Model ----
(***************************************************************************)
(* iamb: the per-room event store (RoomInfo, Message Log, key index), the  *)
(* pagination scheduler (load_plan / load_older_one / load_insert), the    *)
(* message-bar send path (ChatState::send_command) and the worker          *)
(* (Requester, ClientWorker::work / run / init and the loops init spawns). *)
(*                                                                         *)
(* Every action that touches the ChatStore runs with the store's async     *)
(* mutex held (store.lock().await, or a &mut ProgramStore handed in by the *)
(* caller), so an action below is one critical section.                    *)
(***************************************************************************)
EXTENDS Integers, Sequences, FiniteSets, TLC

VARIABLES
    now,        \* monotonic clock read by Instant::now() / Instant::elapsed()
    rooms,      \* ChatStore.rooms : room id -> RoomInfo
    need_load,  \* ChatStore.need_load : set of room ids
    tasks,      \* spawned history fetches (tokio::spawn in load_older), per room:
                \* the cursor each was planned with
    server,     \* the homeserver's timeline : event id -> event
    editing,    \* ChatState.editing : Option<MessageKey>
    reply_to,   \* ChatState.reply_to : Option<MessageKey>
    focus,      \* ChatState.focus : RoomFocus
    tbox,       \* ChatState.tbox : the text the message bar holds
    last,       \* the operation that ran last and its outcome (history variable)
    fetch_issued, \* per room, when its latest fetch was spawned (history variable)
    initialized, \* ClientWorker.initialized
    sync_handle, \* ClientWorker.sync_handle : "None", "Running" or "Aborted"
    rcpt_handle, \* ClientWorker.rcpt_handle
    load_handle, \* ClientWorker.load_handle
    rx,         \* the task channel : the WorkerTasks sent and not yet received
    senders,    \* the callers that still hold a Requester (a clone of tx)
    work,       \* where ClientWorker::work stands
    callers,    \* per caller, where its Requester call stands
    replies,    \* per request, the values sent on its reply channel
    sends,      \* the tasks in the order of tx.send (history variable)
    runs,       \* the tasks in the order run returned (history variable)
    lock,       \* the holder of the store's mutex, None if free
    rcpt        \* where the receipt-refresh loop stands

storeVars == <<now, rooms, need_load, tasks, server, editing, reply_to, focus, tbox,
              fetch_issued>>
workerVars == <<initialized, sync_handle, rcpt_handle, load_handle, rx, senders,
                work, callers, replies, sends, runs>>
lockVars == <<lock, rcpt>>

vars == <<storeVars, last, workerVars, lockVars>>

(***************************************************************************)
(* Bounds of the model.                                                    *)
(***************************************************************************)
MaxEvents == 2      \* event ids the homeserver hands out while the client runs
MaxHistory == 3     \* events the homeserver holds when the client starts
MaxTs == 2          \* origin_server_ts values
MaxTime == 2        \* the clock stops advancing here
MaxPage == 2        \* events in one page of history (stands for the limit)
MaxTypers == 6      \* other users a typing notice can name
MaxArgs == 3        \* words after the name of a command
MaxTasks == 3       \* tasks sent on the task channel
MaxDim == 4         \* widths and heights of images and of their bounds

(***************************************************************************)
(* Program constants.                                                      *)
(***************************************************************************)
ROOM_FETCH_DEBOUNCE == 2
TYPING_STALE == 4           \* get_typers: Duration::from_secs(4)

RoomIds == {"r1", "r2"}
ChatRoom == "r1"            \* the room the ChatState window shows
EventIds == 1..MaxEvents
Timestamps == 1..MaxTs
Cursors == {"c1", "c2"}
Bodies == {"a", "b"}
OwnUser == "me"
Users == {"me", "other"}

None == <<>>
Some(x) == <<x>>
Unwrap(o) == o[1]

EmptyMap == [x \in {} |-> 0]
MapInsert(m, k, v) == [x \in (DOMAIN m) \cup {k} |-> IF x = k THEN v ELSE m[x]]
MapRemove(m, k) == [x \in (DOMAIN m) \ {k} |-> m[x]]

(***************************************************************************)
(* MessageTimeStamp, MessageKey and their ordering.                        *)
(***************************************************************************)
LocalEcho == [tag |-> "LocalEcho", ts |-> 0]
OriginServer(t) == [tag |-> "OriginServer", ts |-> t]
MessageKey(t, event_id) == <<t, event_id>>

\* Ord for MessageTimeStamp: LocalEcho is greater than every OriginServer.
TsLess(a, b) ==
    IF a.tag = "LocalEcho" THEN FALSE
    ELSE IF b.tag = "LocalEcho" THEN TRUE
    ELSE a.ts < b.ts

\* Ord for the tuple (MessageTimeStamp, OwnedEventId): lexicographic.
KeyLess(a, b) ==
    \/ TsLess(a[1], b[1])
    \/ a[1] = b[1] /\ a[2] < b[2]

(***************************************************************************)
(* Messages = BTreeMap<MessageKey, Message>, kept as the sequence of its   *)
(* entries in iteration order.                                             *)
(***************************************************************************)
RECURSIVE LowerBound(_, _, _)
\* index of the first entry from i on whose key is not less than k
LowerBound(m, k, i) ==
    IF i > Len(m) THEN i
    ELSE IF KeyLess(m[i].key, k) THEN LowerBound(m, k, i + 1)
    ELSE i

BTreeFind(m, k) ==
    LET i == LowerBound(m, k, 1)
    IN  IF i <= Len(m) /\ m[i].key = k THEN i ELSE 0

\* mutant: a new entry goes to the end
BTreeInsert_push(m, k, v) ==
    IF \E i \in 1..Len(m) : m[i].key = k
    THEN [i \in 1..Len(m) |-> IF m[i].key = k THEN [key |-> k, msg |-> v] ELSE m[i]]
    ELSE Append(m, [key |-> k, msg |-> v])

BTreeInsert(m, k, v) ==
    LET i == LowerBound(m, k, 1)
        e == [key |-> k, msg |-> v]
    IN  IF i <= Len(m) /\ m[i].key = k
        THEN [m EXCEPT ![i] = e]
        ELSE SubSeq(m, 1, i - 1) \o <<e>> \o SubSeq(m, i, Len(m))

BTreeRemove(m, k) ==
    LET i == BTreeFind(m, k)
    IN  IF i = 0 THEN m
        ELSE SubSeq(m, 1, i - 1) \o SubSeq(m, i + 1, Len(m))

BTreeKeys(m) == {m[i].key : i \in 1..Len(m)}

(***************************************************************************)
(* RoomFetchStatus and RoomInfo.                                           *)
(***************************************************************************)
NotStarted == [st |-> "NotStarted", cur |-> ""]
HaveMore(c) == [st |-> "HaveMore", cur |-> c]
Done == [st |-> "Done", cur |-> ""]

DefaultRoomInfo ==
    [name |-> None,
     keys |-> EmptyMap,
     messages |-> <<>>,
     reactions |-> EmptyMap,
     receipts |-> EmptyMap,
     read_till |-> None,
     users_typing |-> None,
     fetch_id |-> NotStarted,
     fetch_last |-> None,
     fetching |-> FALSE]

\* rooms.get_or_default(room_id) / get_room_info(room_id)
get_or_default(rs, room_id) ==
    IF room_id \in DOMAIN rs THEN rs[room_id] ELSE DefaultRoomInfo

\* MessageEvent::Local / Message::new
LocalMessage(event_id, content, user) ==
    [event |-> "Local", event_id |-> event_id, content |-> content, sender |-> user]

\* impl From<RoomMessageEvent> for Message
MessageFrom(ev) ==
    [event |-> ev.kind, event_id |-> ev.event_id,
     content |-> IF ev.kind = "Redacted" THEN "" ELSE ev.content,
     sender |-> ev.sender]

(***************************************************************************)
(* Event ingestion on one RoomInfo.                                        *)
(***************************************************************************)
\* mutant: an edit of an unknown target becomes an entry of its own
insert_edit_creates(info, repl) ==
    IF repl.event_id \notin DOMAIN info.keys
    THEN [info EXCEPT !.messages =
             BTreeInsert(@, MessageKey(LocalEcho, repl.event_id),
                         LocalMessage(repl.event_id, repl.new_content, OwnUser))]
    ELSE LET loc == info.keys[repl.event_id]
             i == IF loc.loc = "Message" THEN BTreeFind(info.messages, loc.key) ELSE 0
         IN  IF i = 0 THEN info
             ELSE IF info.messages[i].msg.event \in {"Original", "Local"}
                  THEN [info EXCEPT !.messages[i].msg.content = repl.new_content]
                  ELSE info

\* mutant: the body is replaced whatever the variant of the target
insert_edit_any_variant(info, repl) ==
    IF repl.event_id \notin DOMAIN info.keys THEN info
    ELSE LET loc == info.keys[repl.event_id]
             i == IF loc.loc = "Message" THEN BTreeFind(info.messages, loc.key) ELSE 0
         IN  IF i = 0 THEN info
             ELSE [info EXCEPT !.messages[i].msg.content = repl.new_content]

insert_edit(info, repl) ==
    IF repl.event_id \notin DOMAIN info.keys THEN info
    ELSE LET loc == info.keys[repl.event_id]
             i == IF loc.loc = "Message" THEN BTreeFind(info.messages, loc.key) ELSE 0
         IN  IF i = 0 THEN info
             ELSE IF info.messages[i].msg.event \in {"Original", "Local"}
                  THEN [info EXCEPT !.messages[i].msg.content = repl.new_content]
                  ELSE info

\* mutant: the echo is left in the log
insert_message_keeps_echo(info, ev) ==
    LET key == MessageKey(OriginServer(ev.origin_server_ts), ev.event_id)
    IN  [info EXCEPT
            !.keys = MapInsert(@, ev.event_id, [loc |-> "Message", key |-> key]),
            !.messages = BTreeInsert(@, key, MessageFrom(ev))]

\* mutant: the log keeps arrival order
insert_message_arrival(info, ev) ==
    LET key == MessageKey(OriginServer(ev.origin_server_ts), ev.event_id)
        echo == MessageKey(LocalEcho, ev.event_id)
    IN  [info EXCEPT
            !.keys = MapInsert(@, ev.event_id, [loc |-> "Message", key |-> key]),
            !.messages = IF \E i \in 1..Len(@) : @[i].key = key
                         THEN @
                         ELSE Append(BTreeRemove(@, echo), [key |-> key, msg |-> MessageFrom(ev)])]

\* mutant: a message whose key the log holds gets a second entry
insert_message_again(info, ev) ==
    LET key == MessageKey(OriginServer(ev.origin_server_ts), ev.event_id)
        echo == MessageKey(LocalEcho, ev.event_id)
        i == LowerBound(info.messages, key, 1)
    IN  [info EXCEPT
            !.keys = MapInsert(@, ev.event_id, [loc |-> "Message", key |-> key]),
            !.messages = BTreeRemove(SubSeq(@, 1, i - 1)
                                     \o <<[key |-> key, msg |-> MessageFrom(ev)]>>
                                     \o SubSeq(@, i, Len(@)), echo)]

insert_message(info, ev) ==
    LET key == MessageKey(OriginServer(ev.origin_server_ts), ev.event_id)
        echo == MessageKey(LocalEcho, ev.event_id)
    IN  [info EXCEPT
            !.keys = MapInsert(@, ev.event_id, [loc |-> "Message", key |-> key]),
            !.messages = BTreeRemove(BTreeInsert(@, key, MessageFrom(ev)), echo)]

\* a redacted event has no content, hence no relation
IsReplacement(ev) == ev.kind = "Original" /\ ev.relates_to # 0

\* mutant: every event is taken for a new message
insert_unrouted(info, ev) == insert_message(info, ev)

insert(info, ev) ==
    IF IsReplacement(ev)
    THEN insert_edit(info, [event_id |-> ev.relates_to, new_content |-> ev.content])
    ELSE insert_message(info, ev)

\* RoomInfo::insert_reaction: the reaction goes into the table of the event it
\* relates to, and its own event id is indexed as EventLocation::Reaction.
\* A redacted reaction event has no content, hence no relation.
insert_reaction(info, ev) ==
    IF ev.kind # "Reaction" THEN info
    ELSE LET rel_id == ev.relates_to
             message == IF rel_id \in DOMAIN info.reactions
                        THEN info.reactions[rel_id] ELSE EmptyMap
         IN  [info EXCEPT
                 !.reactions = MapInsert(@, rel_id,
                     MapInsert(message, ev.event_id,
                               [key |-> ev.content, user |-> ev.sender])),
                 !.keys = MapInsert(@, ev.event_id, [loc |-> "Reaction", key |-> rel_id])]

\* load_insert: the fold of one event of the page, by its type
load_insert_msg(info, msg) ==
    IF msg.kind \in {"Reaction", "RedactedReaction"}
    THEN insert_reaction(info, msg)
    ELSE insert(info, msg)

RECURSIVE InsertAll(_, _)
\* for msg in msgs.into_iter() { match msg { ... } }
InsertAll(info, msgs) ==
    IF msgs = <<>> THEN info
    ELSE InsertAll(load_insert_msg(info, Head(msgs)), Tail(msgs))

\* mutant: no debounce
recently_fetched_never(info) == FALSE

\* mutant: the debounce window never ends
recently_fetched_forever(info) == info.fetch_last # None

recently_fetched(info) ==
    IF info.fetch_last = None THEN FALSE
    ELSE now - Unwrap(info.fetch_last) < ROOM_FETCH_DEBOUNCE

(***************************************************************************)
(* The homeserver: events are created by a send and read back by sync and  *)
(* by the history endpoint.  A redacted event is served without content;   *)
(* an answer that was already on its way still carries the original.       *)
(***************************************************************************)
NewEvent(event_id, room_id, ts, sender, relates_to, content) ==
    [event_id |-> event_id, room |-> room_id, origin_server_ts |-> ts,
     sender |-> sender, kind |-> "Original", relates_to |-> relates_to,
     content |-> content, redacted |-> FALSE]

\* a reaction of sender to the event relates_to
NewReaction(event_id, room_id, ts, sender, relates_to, key) ==
    [NewEvent(event_id, room_id, ts, sender, relates_to, key) EXCEPT !.kind = "Reaction"]

IsReaction(ev) == ev.kind \in {"Reaction", "RedactedReaction"}

\* RoomMessageEvent::Redacted, MessageLikeEvent::Redacted
RedactedForm(ev) ==
    [ev EXCEPT !.kind = IF IsReaction(ev) THEN "RedactedReaction" ELSE "Redacted",
               !.relates_to = 0, !.content = ""]

\* the forms in which the event can reach the client
Served(ev) == IF ev.redacted THEN {ev, RedactedForm(ev)} ELSE {ev}

RoomEvents(room_id) == {e \in DOMAIN server : server[e].room = room_id}

RECURSIVE SeqsOver(_, _)
\* sequences without repetition over the set s, of length at most n
SeqsOver(s, n) ==
    IF n = 0 THEN {<<>>}
    ELSE {<<>>} \cup
         UNION {{<<x>> \o t : t \in SeqsOver(s \ {x}, n - 1)} : x \in s}

\* the chunks room.messages(opts) can answer with
Chunks(room_id) ==
    UNION {{c \in [1..Len(ids) -> UNION {Served(server[e]) : e \in RoomEvents(room_id)}] :
                \A i \in 1..Len(ids) : c[i] \in Served(server[ids[i]])} :
           ids \in SeqsOver(RoomEvents(room_id), MaxPage)}

FetchError == [ok |-> FALSE, end |-> None, chunk |-> <<>>]

\* load_older_one: the MessageFetchResults a fetch of the room can end with
load_older_one(room_id) ==
    {[ok |-> TRUE, end |-> end, chunk |-> chunk] :
        end \in {None} \cup {Some(c) : c \in Cursors}, chunk \in Chunks(room_id)}
    \cup {FetchError}

(***************************************************************************)
(* Pagination scheduler.                                                   *)
(***************************************************************************)
\* mutant: the re-queue test forgets the fetching flag
load_plan_requeue_ignores_fetching(info) == recently_fetched(info)

\* load_plan: the re-queue test of one room
load_plan_requeue(info) == recently_fetched(info) \/ info.fetching

\* mutant: a plan entry also for a room that is Done
load_plan_fetch_always(info) == TRUE

\* load_plan: whether a claimed room gets a plan entry
load_plan_fetch(info) == info.fetch_id # Done

\* load_plan: the cursor of a plan entry
load_plan_fetch_id(info) ==
    IF info.fetch_id.st = "HaveMore" THEN Some(info.fetch_id.cur) ELSE None

\* mutant: a room that has to wait is not put back into need_load
load_plan_drops ==
    LET taken == need_load
        info(r) == get_or_default(rooms, r)
        claimed == {r \in taken : ~load_plan_requeue(info(r))}
    IN  [need_load |-> {},
         rooms |-> [r \in (DOMAIN rooms) \cup taken |->
                        IF r \in claimed
                        THEN [info(r) EXCEPT !.fetch_last = Some(now), !.fetching = TRUE]
                        ELSE info(r)],
         plan |-> [r \in {c \in claimed : load_plan_fetch(info(c))} |->
                        load_plan_fetch_id(info(r))]]

\* mutant: a room that has to wait makes every room of the tick wait
load_plan_blocked ==
    LET taken == need_load
        info(r) == get_or_default(rooms, r)
        blocked == \E r \in taken : load_plan_requeue(info(r))
        claimed == IF blocked THEN {} ELSE taken
    IN  [need_load |-> taken \ claimed,
         rooms |-> [r \in (DOMAIN rooms) \cup taken |->
                        IF r \in claimed
                        THEN [info(r) EXCEPT !.fetch_last = Some(now), !.fetching = TRUE]
                        ELSE info(r)],
         plan |-> [r \in {c \in claimed : load_plan_fetch(info(c))} |->
                        load_plan_fetch_id(info(r))]]

load_plan ==
    LET taken == need_load
        info(r) == get_or_default(rooms, r)
        claimed == {r \in taken : ~load_plan_requeue(info(r))}
    IN  [need_load |-> taken \ claimed,
         rooms |-> [r \in (DOMAIN rooms) \cup taken |->
                        IF r \in claimed
                        THEN [info(r) EXCEPT !.fetch_last = Some(now), !.fetching = TRUE]
                        ELSE info(r)],
         plan |-> [r \in {c \in claimed : load_plan_fetch(info(c))} |->
                        load_plan_fetch_id(info(r))]]

\* mutant: the fold forgets to move the cursor
load_insert_info_keeps_status(info, res) ==
    LET cleared == [info EXCEPT !.fetching = FALSE]
    IN  IF res.ok THEN InsertAll(cleared, res.chunk) ELSE cleared

\* load_insert: the fold of one fetch result into the room
load_insert_info(info, res) ==
    LET cleared == [info EXCEPT !.fetching = FALSE]
    IN  IF res.ok
        THEN [InsertAll(cleared, res.chunk) EXCEPT
                 !.fetch_id = IF res.end = None THEN Done ELSE HaveMore(Unwrap(res.end))]
        ELSE cleared

\* mutant: a failed fetch is not retried
load_insert_retry_never(room_id, res) == {}

\* load_insert: the rooms put back into need_load
load_insert_retry(room_id, res) == IF res.ok THEN {} ELSE {room_id}

RemoveAt(s, i) == SubSeq(s, 1, i - 1) \o SubSeq(s, i + 1, Len(s))

(***************************************************************************)
(* Actions.                                                                *)
(***************************************************************************)
\* `last` after an operation no property looks back at
Other == [op |-> "other", room |-> "", ok |-> TRUE, arg |-> <<>>]

\* store.lock().await returns: nobody holds the mutex.  An action that folds
\* under the lock and suspends nowhere takes and releases it in one step.
LockFree == lock = None

\* time passes
Advance ==
    /\ now < MaxTime
    /\ now' = now + 1
    /\ last' = Other
    /\ UNCHANGED <<rooms, need_load, tasks, server, editing, reply_to, focus, tbox, fetch_issued>>
    /\ UNCHANGED <<workerVars, lockVars>>

\* an instant one more unit of time ago; an instant that lies
\* ROOM_FETCH_DEBOUNCE or more back is as good as any older one, every test
\* of it being `elapsed() < ROOM_FETCH_DEBOUNCE`
Older(instant) ==
    IF instant = None \/ now - Unwrap(instant) >= ROOM_FETCH_DEBOUNCE
    THEN instant
    ELSE Some(Unwrap(instant) - 1)

\* the same for the instant of users_typing, whose only test is
\* `elapsed() < 4 s`
OlderTyping(typing) ==
    IF typing = None \/ now - Unwrap(typing)[1] >= TYPING_STALE
    THEN typing
    ELSE Some(<<Unwrap(typing)[1] - 1, Unwrap(typing)[2]>>)

\* time passes once the clock has reached MaxTime: the clock keeps its
\* reading and every instant the store holds moves back instead
Elapse ==
    /\ now = MaxTime
    /\ rooms' = [r \in DOMAIN rooms |->
                    [rooms[r] EXCEPT !.fetch_last = Older(@),
                                     !.users_typing = OlderTyping(@)]]
    /\ fetch_issued' = [r \in RoomIds |-> Older(fetch_issued[r])]
    /\ last' = Other
    /\ UNCHANGED <<now, need_load, tasks, server, editing, reply_to, focus, tbox>>
    /\ UNCHANGED <<workerVars, lockVars>>

\* ChatStore::mark_for_load
mark_for_load(room_id) ==
    /\ LockFree
    /\ room_id \notin need_load
    /\ need_load' = need_load \cup {room_id}
    /\ last' = Other
    /\ UNCHANGED <<now, rooms, tasks, server, editing, reply_to, focus, tbox, fetch_issued>>
    /\ UNCHANGED <<workerVars, lockVars>>

\* one tick of the pagination loop: load_older = load_plan, then one spawned
\* fetch per plan entry
load_older ==
    /\ load_handle = "Running"
    /\ LockFree
    /\ need_load # {}
    /\ LET p == load_plan
       IN  /\ rooms' = p.rooms
           /\ need_load' = p.need_load
           /\ tasks' = [r \in RoomIds |->
                          IF r \in DOMAIN p.plan
                          THEN Append(tasks[r], p.plan[r])
                          ELSE tasks[r]]
           /\ last' = [op |-> "load_older", room |-> "", ok |-> TRUE,
                       arg |-> <<need_load, DOMAIN p.plan,
                                 {r \in DOMAIN p.plan : fetch_issued[r] # None}>>]
           /\ fetch_issued' = [r \in RoomIds |->
                                 IF r \in DOMAIN p.plan THEN Some(now) ELSE fetch_issued[r]]
    /\ UNCHANGED <<now, server, editing, reply_to, focus, tbox>>
    /\ UNCHANGED <<workerVars, lockVars>>

\* a spawned fetch runs to its end: load_older_one awaits the network's
\* answer without the lock, load_insert folds it under the lock.  The answer
\* is drawn here; Served and Chunks make it any answer the homeserver can
\* have given since the fetch was spawned.
load_insert(room_id, i) ==
    /\ LockFree
    /\ i \in 1..Len(tasks[room_id])
    /\ \E res \in load_older_one(room_id) :
          /\ rooms' = MapInsert(rooms, room_id,
                                load_insert_info(get_or_default(rooms, room_id), res))
          /\ need_load' = need_load \cup load_insert_retry(room_id, res)
          /\ last' = [op |-> "load_insert", room |-> room_id, ok |-> res.ok,
                      arg |-> <<res>>]
    /\ tasks' = [tasks EXCEPT ![room_id] = RemoveAt(@, i)]
    /\ UNCHANGED <<now, server, editing, reply_to, focus, tbox, fetch_issued>>
    /\ UNCHANGED <<workerVars, lockVars>>

(***************************************************************************)
(* The homeserver's side of a room: other users send and redact.           *)
(***************************************************************************)
FreeEventIds == EventIds \ DOMAIN server

RemoteSend(room_id) ==
    /\ \E event_id \in FreeEventIds, ts \in Timestamps, content \in Bodies,
          relates_to \in {0} \cup EventIds :
          /\ relates_to # event_id
          /\ server' = MapInsert(server, event_id,
                                 NewEvent(event_id, room_id, ts, "other", relates_to, content))
    /\ last' = Other
    /\ UNCHANGED <<now, rooms, need_load, tasks, editing, reply_to, focus, tbox, fetch_issued>>
    /\ UNCHANGED <<workerVars, lockVars>>

RemoteRedact(event_id) ==
    /\ event_id \in DOMAIN server
    /\ ~server[event_id].redacted
    /\ server' = [server EXCEPT ![event_id].redacted = TRUE]
    /\ last' = Other
    /\ UNCHANGED <<now, rooms, need_load, tasks, editing, reply_to, focus, tbox, fetch_issued>>
    /\ UNCHANGED <<workerVars, lockVars>>

(***************************************************************************)
(* Live sync: the room message handler registered by ClientWorker::init.   *)
(***************************************************************************)
RoomName == Some("name")

sync_message_info(info, ev) == insert([info EXCEPT !.name = RoomName], ev)

\* what the room held for the event before a fold of it: its name and the
\* log entry under the event's key (history, kept in `last`)
Before(info, ev) ==
    LET i == BTreeFind(info.messages,
                       MessageKey(OriginServer(ev.origin_server_ts), ev.event_id))
    IN  [name |-> info.name, msg |-> IF i = 0 THEN None ELSE Some(info.messages[i].msg)]

sync_message(event_id) ==
    /\ LockFree
    /\ event_id \in DOMAIN server
    /\ ~IsReaction(server[event_id])
    /\ \E ev \in Served(server[event_id]) :
          /\ rooms' = MapInsert(rooms, ev.room,
                                sync_message_info(get_or_default(rooms, ev.room), ev))
          /\ last' = [op |-> "sync_message", room |-> ev.room, ok |-> TRUE,
                      arg |-> <<ev, Before(get_or_default(rooms, ev.room), ev)>>]
    /\ UNCHANGED <<now, need_load, tasks, server, editing, reply_to, focus, tbox, fetch_issued>>
    /\ UNCHANGED <<workerVars, lockVars>>

\* the reaction handler registered by ClientWorker::init
sync_reaction(event_id) ==
    /\ LockFree
    /\ event_id \in DOMAIN server
    /\ IsReaction(server[event_id])
    /\ \E ev \in Served(server[event_id]) :
          /\ rooms' = MapInsert(rooms, ev.room,
                                insert_reaction(get_or_default(rooms, ev.room), ev))
          /\ last' = [op |-> "sync_reaction", room |-> ev.room, ok |-> TRUE,
                      arg |-> <<ev>>]
    /\ UNCHANGED <<now, need_load, tasks, server, editing, reply_to, focus, tbox, fetch_issued>>
    /\ UNCHANGED <<workerVars, lockVars>>

\* Message::redact: the content variant becomes Redacted, the entry stays
redact(msg) == [msg EXCEPT !.event = "Redacted", !.content = ""]

\* mutant: the redaction of a reaction clears the message's whole table
redaction_clears_table(info, redacts) ==
    IF redacts \notin DOMAIN info.keys THEN info
    ELSE LET loc == info.keys[redacts]
         IN  IF loc.loc = "Message"
             THEN LET i == BTreeFind(info.messages, loc.key)
                  IN  IF i = 0 THEN info
                      ELSE [info EXCEPT !.messages[i].msg = redact(@)]
             ELSE [info EXCEPT
                      !.reactions = IF loc.key \in DOMAIN @
                                    THEN [@ EXCEPT ![loc.key] = EmptyMap]
                                    ELSE @,
                      !.keys = MapRemove(@, redacts)]

\* mutant: an unknown target is remembered as redacted
redaction_marks_unknown(info, redacts) ==
    IF redacts \notin DOMAIN info.keys
    THEN [info EXCEPT !.reactions = MapInsert(@, redacts, EmptyMap)]
    ELSE LET loc == info.keys[redacts]
         IN  IF loc.loc = "Message"
             THEN LET i == BTreeFind(info.messages, loc.key)
                  IN  IF i = 0 THEN info
                      ELSE [info EXCEPT !.messages[i].msg = redact(@)]
             ELSE [info EXCEPT
                      !.reactions = IF loc.key \in DOMAIN @
                                    THEN [@ EXCEPT ![loc.key] = MapRemove(@, redacts)]
                                    ELSE @,
                      !.keys = MapRemove(@, redacts)]

\* mutant: the redacted message leaves the log
redaction_removes_entry(info, redacts) ==
    IF redacts \notin DOMAIN info.keys THEN info
    ELSE LET loc == info.keys[redacts]
         IN  IF loc.loc = "Message"
             THEN [info EXCEPT !.messages = BTreeRemove(@, loc.key)]
             ELSE [info EXCEPT
                      !.reactions = IF loc.key \in DOMAIN @
                                    THEN [@ EXCEPT ![loc.key] = MapRemove(@, redacts)]
                                    ELSE @,
                      !.keys = MapRemove(@, redacts)]

\* the redaction handler registered by ClientWorker::init, on the RoomInfo:
\* match info.keys.get(&ev.redacts)
redaction(info, redacts) ==
    IF redacts \notin DOMAIN info.keys THEN info
    ELSE LET loc == info.keys[redacts]
         IN  IF loc.loc = "Message"
             THEN LET i == BTreeFind(info.messages, loc.key)
                  IN  IF i = 0 THEN info
                      ELSE [info EXCEPT !.messages[i].msg = redact(@)]
             ELSE [info EXCEPT
                      !.reactions = IF loc.key \in DOMAIN @
                                    THEN [@ EXCEPT ![loc.key] = MapRemove(@, redacts)]
                                    ELSE @,
                      !.keys = MapRemove(@, redacts)]

\* live sync delivers the redaction of an event the homeserver has redacted
sync_redaction(redacts) ==
    /\ LockFree
    /\ redacts \in DOMAIN server
    /\ server[redacts].redacted
    /\ LET room_id == server[redacts].room
       IN  /\ rooms' = MapInsert(rooms, room_id,
                                 redaction(get_or_default(rooms, room_id), redacts))
           /\ last' = [op |-> "sync_redaction", room |-> room_id, ok |-> TRUE,
                       arg |-> <<redacts>>]
    /\ UNCHANGED <<now, need_load, tasks, server, editing, reply_to, focus, tbox, fetch_issued>>
    /\ UNCHANGED <<workerVars, lockVars>>

(***************************************************************************)
(* ChatState: the message bar of the window that shows ChatRoom.           *)
(***************************************************************************)
\* send_command: the local echo put into the log (show_echo)
send_echo(info, event_id, content) ==
    [info EXCEPT !.messages =
        BTreeInsert(@, MessageKey(LocalEcho, event_id),
                    LocalMessage(event_id, content, OwnUser))]

\* send_command returns without having sent: NotJoined, Ok(None) for a blank
\* text, or the error of the send.  No property looks back at an Upload
\* that was not sent.
SendFailed(result, act) ==
    /\ last' = IF act = "Submit"
               THEN [op |-> "send_command_unsent", room |-> ChatRoom,
                     ok |-> result = "Ok(None)", arg |-> <<result, act>>]
               ELSE Other
    /\ UNCHANGED <<now, need_load, tasks, server, fetch_issued>>
    /\ UNCHANGED <<workerVars, lockVars>>

\* mutant: every send shows a local echo
show_echo_always(act) == TRUE

\* send_command: show_echo starts true and the Submit arm clears it when
\* self.editing is set
show_echo(act) == ~(act = "Submit" /\ editing # None)

\* EditRope::is_blank of the text box's content
is_blank(text) == text = ""

\* mutant: the message bar is reset before the send is awaited
send_resets_early(act, sent) == act = "Submit"

\* send_command: whether the call reaches self.reset(), which stands in the
\* Submit arm after `room.send(..).await.map_err(IambError::from)?`
send_resets(act, sent) == act = "Submit" /\ sent

\* ChatState::reset
reset ==
    /\ reply_to' = None
    /\ editing' = None
    /\ tbox' = ""

send_command(act) ==
    /\ LockFree
    /\ \E joined \in BOOLEAN, sent \in BOOLEAN :
        IF ~joined
        THEN /\ SendFailed("Err(NotJoined)", act)
             /\ UNCHANGED <<rooms, editing, reply_to, tbox>>
        ELSE LET info == get_or_default(rooms, ChatRoom)
                 relates_to == IF act = "Submit" /\ editing # None
                               THEN Unwrap(editing)[2] ELSE 0
                 content == IF act = "Submit" THEN tbox ELSE "file"
                 echoed == IF act = "Submit" THEN tbox ELSE "[Attached File]"
             IN  IF act = "Submit" /\ is_blank(tbox)
                 THEN /\ SendFailed("Ok(None)", act)
                      /\ rooms' = MapInsert(rooms, ChatRoom, info)
                      /\ UNCHANGED <<editing, reply_to, tbox>>
                 ELSE IF ~sent
                 THEN /\ SendFailed("Err(Matrix)", act)
                      /\ rooms' = MapInsert(rooms, ChatRoom, info)
                      /\ IF send_resets(act, sent)
                         THEN reset
                         ELSE UNCHANGED <<editing, reply_to, tbox>>
                 ELSE \E event_id \in FreeEventIds, ts \in Timestamps :
                        /\ server' = MapInsert(server, event_id,
                                NewEvent(event_id, ChatRoom, ts, OwnUser, relates_to, content))
                        /\ IF send_resets(act, sent)
                           THEN reset
                           ELSE UNCHANGED <<editing, reply_to, tbox>>
                        /\ rooms' = MapInsert(rooms, ChatRoom,
                                IF show_echo(act) THEN send_echo(info, event_id, echoed) ELSE info)
                        /\ last' = [op |-> "send_command", room |-> ChatRoom, ok |-> TRUE,
                                    arg |-> <<event_id, act>>]
                        /\ UNCHANGED <<now, need_load, tasks, fetch_issued>>
                        /\ UNCHANGED <<workerVars, lockVars>>
    /\ UNCHANGED focus

\* the user edits the text of the message bar
type_text(text) ==
    /\ focus = "MessageBar"
    /\ tbox # text
    /\ tbox' = text
    /\ last' = Other
    /\ UNCHANGED <<now, rooms, need_load, tasks, server, editing, reply_to, focus,
                   fetch_issued>>
    /\ UNCHANGED <<workerVars, lockVars>>

\* ChatState::focus_toggle
focus_toggle ==
    /\ focus' = IF focus = "Scrollback" THEN "MessageBar" ELSE "Scrollback"
    /\ last' = Other
    /\ UNCHANGED <<now, rooms, need_load, tasks, server, editing, reply_to, tbox,
                   fetch_issued>>
    /\ UNCHANGED <<workerVars, lockVars>>

MessageActions == {"Cancel", "Download", "Edit", "React", "Redact", "Reply", "Unreact"}

\* scrollback.get_mut(&mut info.messages): the entry the cursor selects, None
\* when the log has no entry for it; sel is the cursor's position, 0 for none
scrollback_get_mut(info, sel) ==
    IF sel \in 1..Len(info.messages) THEN Some(info.messages[sel]) ELSE None

\* scrollback.get_key(info): the key of the entry the cursor selects
scrollback_get_key(info, sel) ==
    IF sel \in 1..Len(info.messages) THEN Some(info.messages[sel].key) ELSE None

\* mutant: Cancel does not look for the selected message
no_selected_message_but_cancel(act, msg) == msg = None /\ act # "Cancel"

\* message_command: `.ok_or(IambError::NoSelectedMessage)?` stands before
\* the match on the action
no_selected_message(act, msg) == msg = None

\* MessageType::Text: a body typed into the bar, or the mock body of the echo
\* of an upload; an uploaded file's event carries an attachment
IsText(content) == content \in Bodies \cup {"[Attached File]"}

\* mutant: the sender of the message is not looked at
edit_failure_any_sender(msg) ==
    IF msg.event \notin {"Original", "Local"} THEN Some("Cannot edit a redacted message")
    ELSE IF ~IsText(msg.content) THEN Some("Cannot edit a non-text message")
    ELSE None

\* message_command, Edit: the failure it returns, if any
edit_failure(msg) ==
    IF msg.sender # OwnUser THEN Some("Cannot edit messages sent by someone else")
    ELSE IF msg.event \notin {"Original", "Local"} THEN Some("Cannot edit a redacted message")
    ELSE IF ~IsText(msg.content) THEN Some("Cannot edit a non-text message")
    ELSE None

\* the user's own reactions to a message, by the room's reaction table
own_reactions(info, event_id) ==
    IF event_id \in DOMAIN info.reactions
    THEN {e \in DOMAIN info.reactions[event_id] :
             info.reactions[event_id][e].user = OwnUser}
    ELSE {}

\* what message_command returns; sel is the position of the selected entry,
\* 0 if there is none.  No property looks back at a Cancel that had a
\* selected message.
MessageResult(act, sel, result) ==
    /\ last' = IF act = "Cancel" /\ sel # 0 /\ result = "Ok"
               THEN Other
               ELSE [op |-> "message_command", room |-> ChatRoom, ok |-> result = "Ok",
                     arg |-> <<act, sel, result>>]
    /\ UNCHANGED <<now, need_load, tasks, fetch_issued>>
    /\ UNCHANGED <<workerVars, lockVars>>

\* message_command(act) with the scrollback's cursor at sel.  Download leaves
\* the state modelled here as it is (Message::downloaded is not modelled).
message_command(act, sel) ==
    /\ LockFree
    /\ LET info == get_or_default(rooms, ChatRoom)
           msg == scrollback_get_mut(info, sel)
           entry == Unwrap(msg)
           at == IF msg = None THEN 0 ELSE sel
       IN  /\ rooms' = MapInsert(rooms, ChatRoom, info)
           /\ IF no_selected_message(act, msg)
              THEN /\ MessageResult(act, at, "Err(NoSelectedMessage)")
                   /\ UNCHANGED <<server, editing, reply_to, focus, tbox>>
              ELSE CASE act = "Cancel" ->
                          /\ reply_to' = None
                          /\ editing' = None
                          /\ MessageResult(act, at, "Ok")
                          /\ UNCHANGED <<server, focus, tbox>>
                     [] act = "Edit" ->
                          IF edit_failure(entry.msg) # None
                          THEN /\ MessageResult(act, at, "Err(Failure)")
                               /\ UNCHANGED <<server, editing, reply_to, focus, tbox>>
                          ELSE /\ tbox' = entry.msg.content
                               /\ editing' = scrollback_get_key(info, sel)
                               /\ focus' = "MessageBar"
                               /\ MessageResult(act, at, "Ok")
                               /\ UNCHANGED <<server, reply_to>>
                     [] act = "Reply" ->
                          /\ reply_to' = scrollback_get_key(info, sel)
                          /\ focus' = "MessageBar"
                          /\ MessageResult(act, at, "Ok")
                          /\ UNCHANGED <<server, editing, tbox>>
                     [] act = "Download" ->
                          /\ \E result \in IF entry.msg.event = "Original"
                                                /\ ~IsText(entry.msg.content)
                                             THEN {"Ok", "Err(Failure)"}
                                             ELSE {"Err(NoAttachment)"} :
                                MessageResult(act, at, result)
                          /\ UNCHANGED <<server, editing, reply_to, focus, tbox>>
                     [] act \in {"React", "Redact", "Unreact"} ->
                          /\ UNCHANGED <<editing, reply_to, focus, tbox>>
                          /\ \E joined \in BOOLEAN, sent \in BOOLEAN :
                                LET event_id == entry.key[2]
                                    mine == own_reactions(info, event_id)
                                IN  IF ~joined
                                    THEN /\ MessageResult(act, at, "Err(NotJoined)")
                                         /\ UNCHANGED server
                                    ELSE IF entry.msg.event = "Redacted"
                                    THEN /\ MessageResult(act, at, "Err(Failure)")
                                         /\ UNCHANGED server
                                    ELSE IF act = "Unreact" /\ mine = {}
                                    THEN /\ MessageResult(act, at, "Ok")
                                         /\ UNCHANGED server
                                    ELSE IF ~sent
                                    THEN /\ MessageResult(act, at, "Err(Matrix)")
                                         /\ UNCHANGED server
                                    ELSE /\ MessageResult(act, at, "Ok")
                                         /\ CASE act = "React" ->
                                                   \E id \in FreeEventIds, ts \in Timestamps :
                                                      server' = MapInsert(server, id,
                                                          NewReaction(id, ChatRoom, ts, OwnUser,
                                                                      event_id, "a"))
                                              [] act = "Redact" ->
                                                   server' = [e \in DOMAIN server |->
                                                       IF e = event_id
                                                       THEN [server[e] EXCEPT !.redacted = TRUE]
                                                       ELSE server[e]]
                                              [] OTHER ->
                                                   server' = [e \in DOMAIN server |->
                                                       IF e \in mine
                                                       THEN [server[e] EXCEPT !.redacted = TRUE]
                                                       ELSE server[e]]

(***************************************************************************)
(* The worker: callers hold a Requester, ClientWorker::work receives the   *)
(* tasks they send and ClientWorker::run executes them.                    *)
(***************************************************************************)
Callers == {"u1", "u2"}

\* a caller is not inside a Requester method
CallerIdle == [pc |-> "idle", req |-> 0, got |-> None]

\* work() stands at rx.recv().await
WorkRecv == [pc |-> "recv", task |-> None]

\* the receipt-refresh loop stands at interval.tick().await
RcptTick == [pc |-> "tick", updates |-> <<>>]

\* WorkerTask: Init, TypingNotice (the variant without a reply channel), and
\* of the variants `assert!(self.initialized); reply.send(handler.await)`
\* Login, whose handler spawns the sync loop, GetRoom and Members
TaskKinds == {"Init", "Login", "GetRoom", "Members", "TypingNotice"}

HasReply(kind) == kind # "TypingNotice"

\* a room id no room of the client has
UnknownRoomId == "r3"

\* the room id a task may carry: GetRoom, Members and TypingNotice carry one
TaskRooms(kind) ==
    IF kind \in {"GetRoom", "Members", "TypingNotice"}
    THEN RoomIds \cup {UnknownRoomId}
    ELSE {""}

WorkerTask(id, kind, room_id) == [id |-> id, kind |-> kind, room |-> room_id]

\* a Requester method: tx.send(task).unwrap(), then response.recv() if the
\* task carries a reply channel.  The send fails, and unwrap panics, once the
\* worker has dropped rx.
call(c, kind, room_id) ==
    /\ c \in senders
    /\ callers[c].pc = "idle"
    /\ Len(sends) < MaxTasks
    /\ LET id == Len(sends) + 1
       IN  IF work.pc \in {"exited", "panicked"}
           THEN /\ callers' = [callers EXCEPT ![c] = [pc |-> "panicked", req |-> 0, got |-> None]]
                /\ senders' = senders \ {c}
                /\ UNCHANGED <<rx, replies, sends>>
           ELSE /\ rx' = Append(rx, WorkerTask(id, kind, room_id))
                /\ sends' = Append(sends, WorkerTask(id, kind, room_id))
                /\ replies' = IF HasReply(kind) THEN MapInsert(replies, id, <<>>) ELSE replies
                /\ callers' = [callers EXCEPT ![c] =
                                  IF HasReply(kind)
                                  THEN [pc |-> "waiting", req |-> id, got |-> None]
                                  ELSE CallerIdle]
                /\ UNCHANGED senders
    /\ last' = [op |-> "call", room |-> "", ok |-> TRUE, arg |-> <<c, kind, room_id>>]
    /\ UNCHANGED <<initialized, sync_handle, rcpt_handle, load_handle, work, runs>>
    /\ UNCHANGED <<storeVars, lockVars>>

\* whether the reply sender of request id still exists: in the channel or in
\* the task run holds
ReplyAlive(id) ==
    \/ \E i \in 1..Len(rx) : rx[i].id = id
    \/ work.task # None /\ Unwrap(work.task).id = id

\* ClientResponse::recv: returns the value sent on the caller's own reply
\* channel; panics if the sender was dropped without a send
recv(c) ==
    /\ callers[c].pc = "waiting"
    /\ LET id == callers[c].req
       IN  \/ /\ replies[id] # <<>>
              /\ callers' = [callers EXCEPT ![c] =
                                [pc |-> "idle", req |-> id, got |-> Some(Head(replies[id]))]]
              /\ UNCHANGED senders
           \/ /\ replies[id] = <<>>
              /\ ~ReplyAlive(id)
              /\ callers' = [callers EXCEPT ![c] = [pc |-> "panicked", req |-> id, got |-> None]]
              /\ senders' = senders \ {c}
    /\ last' = [op |-> "recv", room |-> "", ok |-> callers'[c].pc = "idle", arg |-> <<c>>]
    /\ UNCHANGED <<initialized, sync_handle, rcpt_handle, load_handle, rx, work, replies,
                   sends, runs>>
    /\ UNCHANGED <<storeVars, lockVars>>

\* a caller drops its Requester
drop_requester(c) ==
    /\ c \in senders
    /\ callers[c].pc = "idle"
    /\ senders' = senders \ {c}
    /\ last' = Other
    /\ UNCHANGED <<initialized, sync_handle, rcpt_handle, load_handle, rx, work, callers,
                   replies, sends, runs>>
    /\ UNCHANGED <<storeVars, lockVars>>

\* mutant: the channel hands out the task sent last
rx_recv_newest(queue) == queue[Len(queue)]

\* UnboundedReceiver::recv: the task sent first
rx_recv(queue) == Head(queue)

\* work: rx.recv().await returns Some(task)
work_recv ==
    /\ work.pc = "recv"
    /\ rx # <<>>
    /\ LET task == rx_recv(rx)
       IN  /\ work' = [pc |-> "run", task |-> Some(task)]
           /\ rx' = SelectSeq(rx, LAMBDA t : t # task)
    /\ last' = Other
    /\ UNCHANGED <<initialized, sync_handle, rcpt_handle, load_handle, senders, callers,
                   replies, sends, runs>>
    /\ UNCHANGED <<storeVars, lockVars>>

\* an aborted JoinHandle; None.take() is None
abort(handle) == IF handle = "Running" THEN "Aborted" ELSE handle

\* work: rx.recv().await returns None, the loop breaks and work aborts the
\* handles it takes.  Aborting the receipt loop drops its MutexGuard.
work_exit ==
    /\ work.pc = "recv"
    /\ rx = <<>>
    /\ senders = {}
    /\ work' = [pc |-> "exited", task |-> None]
    /\ sync_handle' = abort(sync_handle)
    /\ rcpt_handle' = abort(rcpt_handle)
    /\ rcpt' = RcptTick
    /\ lock' = IF lock = Some("rcpt") THEN None ELSE lock
    /\ last' = [op |-> "work_exit", room |-> "", ok |-> TRUE, arg |-> <<>>]
    /\ UNCHANGED <<initialized, load_handle, rx, senders, callers, replies, sends, runs>>
    /\ UNCHANGED storeVars

\* mutant: run asserts nothing
run_assert_nothing(kind) == TRUE

\* run: the assertion the arm of the task starts with
run_assert(kind) == IF kind = "Init" THEN initialized = FALSE ELSE initialized

\* Client::get_room: the rooms the client's state holds
client_get_room(room_id) == room_id \in RoomIds

\* IambError::UnknownRoom(room_id)
UnknownRoom(room_id) == "Err(UnknownRoom(" \o room_id \o "))"

\* mutant: a room the client does not know is reported as an SDK error
get_room_untyped(room_id) == {"Ok", "Err(Matrix)"}

\* ClientWorker::get_room: what it returns; display_name() and tags() of a
\* room the client knows can fail
get_room(room_id) ==
    IF client_get_room(room_id) THEN {"Ok", "Err(Matrix)"} ELSE {UnknownRoom(room_id)}

\* ClientWorker::members: what it returns
members(room_id) ==
    IF client_get_room(room_id) THEN {"Ok", "Err(Matrix)"} ELSE {UnknownRoom(room_id)}

\* the values the handler of a task can return
Results(task) ==
    CASE task.kind = "Init" -> {"unit"}
      [] task.kind = "Login" -> {"Ok", "Err(restore_login)", "Err(sync_once)"}
      [] task.kind = "GetRoom" -> get_room(task.room)
      [] task.kind = "Members" -> members(task.room)
      [] OTHER -> {"none"}

\* mutant: an error of the handler is not replied
reply_send_ok_only(rs, task, value) ==
    IF HasReply(task.kind) /\ value \in {"unit", "Ok"}
    THEN [rs EXCEPT ![task.id] = Append(@, [for |-> task.id, value |-> value])]
    ELSE rs

\* run: reply.send(value) on the reply channel the task carries
reply_send(rs, task, value) ==
    IF HasReply(task.kind)
    THEN [rs EXCEPT ![task.id] = Append(@, [for |-> task.id, value |-> value])]
    ELSE rs

\* the message events the homeserver holds: the initial sync of
\* login_and_sync hands one of them to the room message handler
sync_once_events == {e \in DOMAIN server : ~IsReaction(server[e])}

\* login_and_sync of this task goes on to client.sync_once(..).await, whose
\* response holds an event for a registered handler
sync_once_handles(task, value) ==
    task.kind = "Login" /\ value = "Ok" /\ sync_once_events # {}

\* run(task): the assertion, the handler and the reply.  A failed assertion
\* panics the worker's task: rx and the tasks in it are dropped.  A Login
\* whose initial sync has an event to hand to a handler stays inside
\* sync_once: the handler awaits store.lock().
run ==
    /\ work.pc = "run"
    /\ LET task == Unwrap(work.task)
       IN  IF ~run_assert(task.kind)
           THEN /\ work' = [pc |-> "panicked", task |-> None]
                /\ rx' = <<>>
                /\ last' = [op |-> "run", room |-> "", ok |-> FALSE, arg |-> <<task>>]
                /\ UNCHANGED <<initialized, sync_handle, rcpt_handle, load_handle,
                               replies, runs>>
           ELSE \E value \in Results(task) :
                /\ initialized' = IF task.kind = "Init" THEN TRUE ELSE initialized
                /\ rcpt_handle' = IF task.kind = "Init" THEN "Running" ELSE rcpt_handle
                /\ load_handle' = IF task.kind = "Init" THEN "Running" ELSE load_handle
                /\ sync_handle' = IF task.kind = "Login" /\ value # "Err(restore_login)"
                                  THEN "Running" ELSE sync_handle
                /\ IF sync_once_handles(task, value)
                   THEN /\ work' = [pc |-> "sync_once", task |-> Some(task)]
                        /\ last' = Other
                        /\ UNCHANGED <<replies, runs>>
                   ELSE /\ replies' = reply_send(replies, task, value)
                        /\ runs' = Append(runs, task)
                        /\ work' = WorkRecv
                        /\ last' = [op |-> "run", room |-> "", ok |-> TRUE,
                                    arg |-> <<task>>]
                /\ UNCHANGED rx
    /\ UNCHANGED <<senders, callers, sends>>
    /\ UNCHANGED <<storeVars, lockVars>>

\* login_and_sync inside client.sync_once(..).await: the room message handler
\* is run on an event of the response, store.lock().await returns to it, it
\* folds the event and drops the guard; sync_once returns and run replies
sync_once ==
    /\ work.pc = "sync_once"
    /\ LockFree
    /\ LET task == Unwrap(work.task)
       IN  /\ \E e \in sync_once_events : \E ev \in Served(server[e]) :
                 rooms' = MapInsert(rooms, ev.room,
                                    sync_message_info(get_or_default(rooms, ev.room), ev))
           /\ replies' = reply_send(replies, task, "Ok")
           /\ runs' = Append(runs, task)
           /\ work' = WorkRecv
           /\ last' = [op |-> "run", room |-> "", ok |-> TRUE, arg |-> <<task>>]
    /\ UNCHANGED <<initialized, sync_handle, rcpt_handle, load_handle, rx, senders,
                   callers, sends>>
    /\ UNCHANGED <<now, need_load, tasks, server, editing, reply_to, focus, tbox, fetch_issued>>
    /\ UNCHANGED lockVars

\* a caller on the UI side takes the store's lock: the window code it runs is
\* handed a &mut ProgramStore
ui_lock(c) ==
    /\ c \in senders
    /\ callers[c].pc = "idle"
    /\ LockFree
    /\ lock' = Some(c)
    /\ last' = Other
    /\ UNCHANGED <<storeVars, workerVars, rcpt>>

\* the caller returns from the window code and drops the guard
ui_unlock(c) ==
    /\ lock = Some(c)
    /\ callers[c].pc = "idle"
    /\ lock' = None
    /\ last' = Other
    /\ UNCHANGED <<storeVars, workerVars, rcpt>>

\* one iteration of the sync loop login_and_sync spawns: client.sync returns
sync_loop ==
    /\ sync_handle = "Running"
    /\ last' = [op |-> "sync_loop", room |-> "", ok |-> TRUE, arg |-> <<>>]
    /\ UNCHANGED <<storeVars, workerVars, lockVars>>

(***************************************************************************)
(* Read receipts: the loop init spawns (rcpt_handle) and set_receipts.     *)
(***************************************************************************)
\* the window marks the room read up to an event of its log
set_read_till(room_id, event_id) ==
    /\ LockFree
    /\ room_id \in DOMAIN rooms
    /\ event_id \in DOMAIN rooms[room_id].keys
    /\ rooms[room_id].read_till # Some(event_id)
    /\ rooms' = [rooms EXCEPT ![room_id].read_till = Some(event_id)]
    /\ last' = Other
    /\ UNCHANGED <<now, need_load, tasks, server, editing, reply_to, focus, tbox, fetch_issued>>
    /\ UNCHANGED <<workerVars, lockVars>>

\* update_receipts: per joined room whose members could be read, the event
\* each member has read up to
Receipts(room_id) ==
    {EmptyMap} \cup {[e \in {event_id} |-> <<"other">>] : event_id \in RoomEvents(room_id)}

\* mutant: the new receipts are merged into the ones the room has
set_receipts_info_merge(info, receipts) ==
    [info EXCEPT !.receipts = [e \in DOMAIN @ \cup DOMAIN receipts |->
                                  IF e \in DOMAIN receipts THEN receipts[e] ELSE @[e]],
                 !.read_till = None]

\* set_receipts, first loop: the receipts of a room the store knows are
\* replaced, its read_till is taken
set_receipts_info(info, receipts) == [info EXCEPT !.receipts = receipts, !.read_till = None]

\* set_receipts, first loop: the (room_id, read_till) pushed to updates
set_receipts_updates(rs, room_id) ==
    IF room_id \in DOMAIN rs /\ rs[room_id].read_till # None
    THEN <<[room |-> room_id, read_till |-> Unwrap(rs[room_id].read_till)]>>
    ELSE <<>>

\* one round of the receipt loop up to its first suspension under the lock:
\* update_receipts has answered for room_id, store.lock().await has returned,
\* set_receipts has run its first loop and, of its second loop, the part up
\* to the first room.read_receipt(..).await.  The guard of store.lock() lives
\* to the end of the statement, that is until set_receipts has returned.
rcpt_loop(room_id) ==
    /\ rcpt_handle = "Running"
    /\ rcpt.pc = "tick"
    /\ LockFree
    /\ \E receipts \in Receipts(room_id), joined \in BOOLEAN :
          LET updates == IF joined THEN set_receipts_updates(rooms, room_id) ELSE <<>>
          IN  /\ rooms' = IF room_id \in DOMAIN rooms
                          THEN [rooms EXCEPT ![room_id] = set_receipts_info(@, receipts)]
                          ELSE rooms
              /\ IF updates = <<>>
                 THEN UNCHANGED lockVars
                 ELSE /\ lock' = Some("rcpt")
                      /\ rcpt' = [pc |-> "read_receipt", updates |-> updates]
              /\ last' = [op |-> "rcpt_loop", room |-> room_id, ok |-> TRUE,
                          arg |-> <<receipts, get_or_default(rooms, room_id).receipts>>]
    /\ UNCHANGED <<now, need_load, tasks, server, editing, reply_to, focus, tbox, fetch_issued>>
    /\ UNCHANGED workerVars

\* set_receipts, second loop: room.read_receipt(..).await returns; after the
\* last one set_receipts returns and the guard is dropped
read_receipt ==
    /\ rcpt.pc = "read_receipt"
    /\ IF Len(rcpt.updates) > 1
       THEN /\ rcpt' = [rcpt EXCEPT !.updates = Tail(@)]
            /\ UNCHANGED lock
       ELSE /\ rcpt' = RcptTick
            /\ lock' = None
    /\ last' = Other
    /\ UNCHANGED <<storeVars, workerVars>>

(***************************************************************************)
(* Typing notices: the SyncTypingEvent handler registered by init, and the *)
(* typing line of a room.                                                  *)
(***************************************************************************)
TypistNames == <<"t1", "t2", "t3", "t4", "t5", "t6", "t7", "t8", "t9">>

\* the users of the room in the order the homeserver lists them
Typists == <<"t1", OwnUser>> \o SubSeq(TypistNames, 2, MaxTypers)

\* the runs of consecutive elements of s
Runs(s) == {SubSeq(s, i, j) : i \in 1..(Len(s) + 1), j \in 0..Len(s)}

Reverse(s) == [i \in 1..Len(s) |-> s[Len(s) + 1 - i]]

\* ev.content.user_ids of a typing event: some of the users, in the
\* homeserver's order or in the opposite one
TypingLists == Runs(Typists) \cup {Reverse(s) : s \in Runs(Typists)}

\* mutant: the local user is kept
typing_users_unfiltered(user_ids) == user_ids

\* the typing handler: user_ids without the profile's own user id
typing_users(user_ids) == SelectSeq(user_ids, LAMBDA u : u # OwnUser)

\* mutant: the users of the notice are added to the ones stored
set_typing_extends(info, user_ids) ==
    [info EXCEPT !.users_typing =
        Some(<<now, (IF @ = None THEN <<>> ELSE Unwrap(@)[2]) \o user_ids>>)]

\* RoomInfo::set_typing
set_typing(info, user_ids) == [info EXCEPT !.users_typing = Some(<<now, user_ids>>)]

\* the typing handler
sync_typing(room_id, user_ids) ==
    /\ LockFree
    /\ rooms' = MapInsert(rooms, room_id,
                          set_typing(get_or_default(rooms, room_id), typing_users(user_ids)))
    /\ last' = [op |-> "sync_typing", room |-> room_id, ok |-> TRUE, arg |-> <<user_ids>>]
    /\ UNCHANGED <<now, need_load, tasks, server, editing, reply_to, focus, tbox, fetch_issued>>
    /\ UNCHANGED <<workerVars, lockVars>>

\* mutant: the typing set goes stale with the fetch debounce
get_typers_debounce(info) ==
    IF info.users_typing = None THEN <<>>
    ELSE IF now - Unwrap(info.users_typing)[1] < ROOM_FETCH_DEBOUNCE
         THEN Unwrap(info.users_typing)[2]
         ELSE <<>>

\* RoomInfo::get_typers
get_typers(info) ==
    IF info.users_typing = None THEN <<>>
    ELSE IF now - Unwrap(info.users_typing)[1] < TYPING_STALE
         THEN Unwrap(info.users_typing)[2]
         ELSE <<>>

\* the names the settings give to users
UserNames == [t5 |-> "USER 5"]

\* ApplicationSettings::get_user_span: the configured name of the user, or
\* the user id
get_user_span(user_id) ==
    IF user_id \in DOMAIN UserNames THEN UserNames[user_id] ELSE user_id

\* mutant: five users are still several
get_typing_spans_five_several(info) ==
    LET typers == get_typers(info)
        n == Len(typers)
    IN  CASE n = 0 -> <<>>
          [] n = 1 -> <<get_user_span(typers[1]), " is typing...">>
          [] n = 2 -> <<get_user_span(typers[1]), " and ", get_user_span(typers[2]),
                        " are typing...">>
          [] n > 2 /\ n <= 5 -> <<"Several people are typing...">>
          [] OTHER -> <<"Many people are typing...">>

\* RoomInfo::get_typing_spans
get_typing_spans(info) ==
    LET typers == get_typers(info)
        n == Len(typers)
    IN  CASE n = 0 -> <<>>
          [] n = 1 -> <<get_user_span(typers[1]), " is typing...">>
          [] n = 2 -> <<get_user_span(typers[1]), " and ", get_user_span(typers[2]),
                        " are typing...">>
          [] n > 2 /\ n < 5 -> <<"Several people are typing...">>
          [] OTHER -> <<"Many people are typing...">>

(***************************************************************************)
(* Commands: the functions that turn the words after a command's name into *)
(* an action or an error.                                                  *)
(***************************************************************************)
\* the words a user types: the subcommands of :verify and :invite, a user
\* id and a word that is neither
ValidUserIds == {"@user:example.com"}

Words == {"accept", "cancel", "confirm", "mismatch", "request", "reject", "send", "foo"}
             \cup ValidUserIds

\* desc.arg.strings(): the words after the command's name
ArgLists == UNION {[1..n -> Words] : n \in 0..MaxArgs}

\* a ProgResult: Ok(step with the action) or Err(error)
CmdOk(action) == [ok |-> TRUE, val |-> action]
CmdErr(error) == [ok |-> FALSE, val |-> error]

InvalidArgument == <<"InvalidArgument">>

\* mutant: words after accept and reject are ignored
iamb_invite_lenient(args) ==
    IF args = <<>> THEN CmdErr(InvalidArgument)
    ELSE CASE args[1] = "accept" -> CmdOk(<<"Room", "InviteAccept">>)
           [] args[1] = "reject" -> CmdOk(<<"Room", "InviteReject">>)
           [] args[1] = "send" ->
                IF Len(args) # 2 THEN CmdErr(InvalidArgument)
                ELSE IF args[2] \in ValidUserIds
                     THEN CmdOk(<<"Room", "InviteSend", args[2]>>)
                     ELSE CmdErr(<<"Error", "Invalid user identifier: " \o args[2]>>)
           [] OTHER -> CmdErr(InvalidArgument)

\* iamb_invite
iamb_invite(args) ==
    IF args = <<>> THEN CmdErr(InvalidArgument)
    ELSE CASE args[1] = "accept" ->
                IF Len(args) # 1 THEN CmdErr(InvalidArgument)
                ELSE CmdOk(<<"Room", "InviteAccept">>)
           [] args[1] = "reject" ->
                IF Len(args) # 1 THEN CmdErr(InvalidArgument)
                ELSE CmdOk(<<"Room", "InviteReject">>)
           [] args[1] = "send" ->
                IF Len(args) # 2 THEN CmdErr(InvalidArgument)
                ELSE IF args[2] \in ValidUserIds
                     THEN CmdOk(<<"Room", "InviteSend", args[2]>>)
                     ELSE CmdErr(<<"Error", "Invalid user identifier: " \o args[2]>>)
           [] OTHER -> CmdErr(InvalidArgument)

\* iamb_verify, the arm for two words
iamb_verify_two(args) ==
    CASE args[1] = "accept" -> CmdOk(<<"Verify", "Accept", args[2]>>)
      [] args[1] = "cancel" -> CmdOk(<<"Verify", "Cancel", args[2]>>)
      [] args[1] = "confirm" -> CmdOk(<<"Verify", "Confirm", args[2]>>)
      [] args[1] = "mismatch" -> CmdOk(<<"Verify", "Mismatch", args[2]>>)
      [] args[1] = "request" -> CmdOk(<<"VerifyRequest", args[2]>>)
      [] OTHER -> CmdErr(InvalidArgument)

\* mutant: words after the second are ignored
iamb_verify_lenient(args) ==
    CASE Len(args) = 0 -> CmdOk(<<"Switch", "VerifyList">>)
      [] Len(args) = 1 -> CmdErr(InvalidArgument)
      [] OTHER -> iamb_verify_two(args)

\* iamb_verify
iamb_verify(args) ==
    CASE Len(args) = 0 -> CmdOk(<<"Switch", "VerifyList">>)
      [] Len(args) = 1 -> CmdErr(InvalidArgument)
      [] Len(args) = 2 -> iamb_verify_two(args)
      [] OTHER -> CmdErr(InvalidArgument)

\* the words of a :room line: fields, actions, two tag names (a well-known
\* one and a user tag) and a word that is none of these
RoomWords == {"name", "topic", "tag", "set", "unset", "fav", "u.irc", "foo"}

\* the lines of :room: a field, an action and up to two more words
RoomArgLists == UNION {[1..n -> RoomWords] : n \in 0..(MaxArgs + 1)}

\* tag_name: the well-known tags by their spellings, a user tag if the word
\* parses as one (u.<name>), else an error
tag_name(name) ==
    CASE name \in {"fav", "favorite", "favourite", "m.favourite"} -> CmdOk("Favorite")
      [] name \in {"low", "lowpriority", "low_priority", "low-priority", "m.lowpriority"} ->
            CmdOk("LowPriority")
      [] name \in {"servernotice", "server_notice", "server-notice", "m.server_notice"} ->
            CmdOk("ServerNotice")
      [] name \in {"u.irc", "u.custom-tag"} -> CmdOk("User(" \o name \o ")")
      [] OTHER -> CmdErr(<<"Error", "Invalid user tag name: " \o name>>)

\* iamb_room, the match on (field, action, args.pop())
iamb_room_match(field, action, value) ==
    CASE field \in {"name", "topic"} /\ action = "set" /\ value # None ->
            CmdOk(<<"Room", "Set", IF field = "name" THEN "Name" ELSE "Topic",
                    Unwrap(value)>>)
      [] field \in {"name", "topic"} /\ action = "unset" /\ value = None ->
            CmdOk(<<"Room", "Unset", IF field = "name" THEN "Name" ELSE "Topic">>)
      [] field = "tag" /\ action = "set" /\ value # None ->
            IF tag_name(Unwrap(value)).ok
            THEN CmdOk(<<"Room", "Set", "Tag(" \o tag_name(Unwrap(value)).val \o ")", "">>)
            ELSE tag_name(Unwrap(value))
      [] field = "tag" /\ action = "unset" /\ value # None ->
            IF tag_name(Unwrap(value)).ok
            THEN CmdOk(<<"Room", "Unset", "Tag(" \o tag_name(Unwrap(value)).val \o ")">>)
            ELSE tag_name(Unwrap(value))
      [] OTHER -> CmdErr(InvalidArgument)

\* mutant: of several values the last is taken
iamb_room_last_value(args) ==
    IF Len(args) < 2 THEN CmdErr(InvalidArgument)
    ELSE iamb_room_match(args[1], args[2],
                         IF Len(args) > 2 THEN Some(args[Len(args)]) ELSE None)

\* iamb_room
iamb_room(args) ==
    IF Len(args) < 2 THEN CmdErr(InvalidArgument)
    ELSE IF Len(args) - 2 > 1 THEN CmdErr(InvalidArgument)
    ELSE iamb_room_match(args[1], args[2],
                         IF Len(args) = 3 THEN Some(args[3]) ELSE None)

\* the user enters a command line: its function is applied to its words.
\* The functions read and write no state, so one line per behaviour covers
\* every line.
input_cmd(name, args) ==
    /\ last = Other
    /\ LET res == CASE name = "verify" -> iamb_verify(args)
                    [] name = "invite" -> iamb_invite(args)
                    [] name = "room" -> iamb_room(args)
       IN  last' = [op |-> name, room |-> "", ok |-> res.ok, arg |-> <<args, res>>]
    /\ UNCHANGED <<now, rooms, need_load, tasks, server, editing, reply_to, focus, tbox, fetch_issued>>
    /\ UNCHANGED <<workerVars, lockVars>>

(***************************************************************************)
(* Image previews: the size an image is scaled to (message/sixel.rs).      *)
(***************************************************************************)
\* The sizes are u32.  A product of two sizes up to MaxDim is far below 2^32,
\* so no multiplication below wraps and u32 division is integer division.
Min(a, b) == IF a <= b THEN a ELSE b
Max(a, b) == IF a >= b THEN a ELSE b

\* fit_dimensions(width, height, bound_width, bound_height) -> (u32, u32)
fit_dimensions(width, height, bound_width, bound_height) ==
    IF width <= bound_width /\ height <= bound_height
    THEN <<width, height>>
    ELSE LET ratio == width * bound_height
             nratio == bound_width * height
             use_width == nratio <= ratio
             intermediate == IF use_width
                             THEN (height * bound_width) \div width
                             ELSE (width * bound_height) \div height
         IN  IF use_width
             THEN <<bound_width, Max(1, intermediate)>>
             ELSE <<intermediate, Max(1, bound_height)>>

\* find_fit(img, height): the image's own width is the bound of the width
find_fit(img_width, img_height, height) ==
    LET fit == fit_dimensions(img_width, img_height, img_width, height)
    IN  <<Min(fit[1], 1000), fit[2]>>

Dims == 1..MaxDim

\* one call of fit_dimensions, its arguments and its result kept in `last`
fit(width, height, bound_width, bound_height) ==
    /\ last = Other
    /\ last' = [op |-> "fit_dimensions", room |-> "", ok |-> TRUE,
                arg |-> <<<<width, height, bound_width, bound_height>>,
                          fit_dimensions(width, height, bound_width, bound_height)>>]
    /\ UNCHANGED <<storeVars, workerVars, lockVars>>

\* one call of find_fit for an image and a preview height
preview_fit(img_width, img_height, height) ==
    /\ last = Other
    /\ last' = [op |-> "find_fit", room |-> "", ok |-> TRUE,
                arg |-> <<<<img_width, img_height, height>>,
                          find_fit(img_width, img_height, height)>>]
    /\ UNCHANGED <<storeVars, workerVars, lockVars>>

(***************************************************************************)
(* Specifications.                                                         *)
(***************************************************************************)
\* the history the homeserver already holds when the client starts: in r1 a
\* message, an older message and an edit of the first, in r2 a message, ...
History(e) ==
    NewEvent(e, IF e % 4 = 0 THEN "r2" ELSE "r1",
             IF e % 4 = 1 THEN MaxTs ELSE 1, "other",
             IF e % 4 = 3 THEN e - 2 ELSE 0,
             IF e % 4 = 3 THEN "b" ELSE "a")

\* ChatStore::new, and no fetch spawned, no message selected for editing
NewStore ==
    /\ now = 0
    /\ rooms = EmptyMap
    /\ need_load = {}
    /\ tasks = [r \in RoomIds |-> <<>>]
    /\ editing = None
    /\ reply_to = None
    /\ focus = "MessageBar"
    /\ tbox = ""
    /\ last = Other
    /\ fetch_issued = [r \in RoomIds |-> None]
    /\ lock = None

\* nobody has called the Requester yet
NoCalls ==
    /\ rx = <<>>
    /\ senders = Callers
    /\ work = WorkRecv
    /\ callers = [c \in Callers |-> CallerIdle]
    /\ replies = EmptyMap
    /\ sends = <<>>
    /\ runs = <<>>

\* the client after Requester::init and Requester::login have returned: init
\* has spawned the receipt-refresh and the pagination loop, login_and_sync the
\* sync loop
InitStore ==
    /\ NewStore
    /\ NoCalls
    /\ initialized = TRUE
    /\ sync_handle = "Running"
    /\ rcpt_handle = "Running"
    /\ load_handle = "Running"
    /\ rcpt = RcptTick

\* Spec: the pagination scheduler over two rooms with a fixed history
Init == InitStore /\ server = [e \in 1..MaxHistory |-> History(e)]

Next ==
    \/ Advance
    \/ \E r \in RoomIds : mark_for_load(r)
    \/ load_older
    \/ \E r \in RoomIds, i \in 1..2 : load_insert(r, i)

Spec == Init /\ [][Next]_vars

\* SpecLog: the event store of one room fed by live sync and the message bar,
\* with the homeserver's timeline growing as users send
InitLog == InitStore /\ server = EmptyMap

NextLog ==
    \/ RemoteSend(ChatRoom)
    \/ \E e \in EventIds : RemoteRedact(e)
    \/ \E e \in EventIds : sync_message(e)
    \/ \E act \in {"Submit", "Upload"} : send_command(act)
    \/ \E act \in {"Edit", "Cancel"}, sel \in 1..(MaxEvents + 1) : message_command(act, sel)
    \/ type_text("a")

SpecLog == InitLog /\ [][NextLog]_vars

\* SpecIndex: SpecLog with the redaction handler of live sync
NextIndex ==
    \/ NextLog
    \/ \E e \in EventIds : sync_redaction(e)

SpecIndex == InitLog /\ [][NextIndex]_vars

\* SpecMerge: one room of the fixed history fed by live sync and by
\* pagination at once
NextMerge ==
    \/ Advance
    \/ \E e \in RoomEvents(ChatRoom) : sync_message(e)
    \/ mark_for_load(ChatRoom)
    \/ load_older
    \/ \E i \in 1..2 : load_insert(ChatRoom, i)

SpecMerge == Init /\ [][NextMerge]_vars

\* the history of SpecRedact: in r1 a message, an older message and two
\* reactions to the first, ...
HistoryReact(e) ==
    IF e % 4 \in {1, 2}
    THEN NewEvent(e, "r1", IF e % 4 = 1 THEN MaxTs ELSE 1, "other", 0, "a")
    ELSE NewReaction(e, "r1", 1, IF e % 4 = 3 THEN "other" ELSE OwnUser,
                     IF e % 4 = 3 THEN e - 2 ELSE e - 3, "+1")

InitRedact == InitStore /\ server = [e \in 1..(MaxHistory + 1) |-> HistoryReact(e)]

\* SpecRedact: one room fed by the live handlers for messages, reactions and
\* redactions while users redact events
NextRedact ==
    \/ \E e \in DOMAIN server : RemoteRedact(e)
    \/ \E e \in DOMAIN server : sync_message(e)
    \/ \E e \in DOMAIN server : sync_reaction(e)
    \/ \E e \in DOMAIN server : sync_redaction(e)

SpecRedact == InitRedact /\ [][NextRedact]_vars

\* the state after ClientWorker::spawn and ChatStore::new
InitWorker ==
    /\ NewStore
    /\ NoCalls
    /\ server = EmptyMap
    /\ initialized = FALSE
    /\ sync_handle = "None"
    /\ rcpt_handle = "None"
    /\ load_handle = "None"
    /\ rcpt = RcptTick

\* SpecWorker: two callers with a Requester each, the worker's task loop and
\* the three loops the worker spawns, over a store with one room to load
NextWorker ==
    \/ \E c \in Callers, kind \in TaskKinds \ {"Members"} :
          call(c, kind, IF ChatRoom \in TaskRooms(kind) THEN ChatRoom ELSE "")
    \/ \E c \in Callers : recv(c)
    \/ \E c \in Callers : drop_requester(c)
    \/ work_recv
    \/ run
    \/ work_exit
    \/ sync_loop
    \/ rcpt_loop(ChatRoom)
    \/ mark_for_load(ChatRoom)
    \/ load_older

SpecWorker == InitWorker /\ [][NextWorker]_vars

\* SpecReceipts: one room of the fixed history fed by live sync, read in the
\* window and refreshed by the receipt loop, with the pagination tick
\* competing for the lock
NextReceipts ==
    \/ \E e \in RoomEvents(ChatRoom) : sync_message(e)
    \/ \E e \in RoomEvents(ChatRoom) : set_read_till(ChatRoom, e)
    \/ rcpt_loop(ChatRoom)
    \/ read_receipt
    \/ mark_for_load(ChatRoom)
    \/ load_older
    \/ load_insert(ChatRoom, 1)

SpecReceipts == Init /\ [][NextReceipts]_vars

\* SpecRetry: the pagination of one room with time that never stops.  The
\* interval of the pagination loop keeps ticking, time keeps passing and a
\* spawned fetch ends, with an answer or with the request timeout.
NextRetry ==
    \/ Advance
    \/ Elapse
    \/ mark_for_load(ChatRoom)
    \/ load_older
    \/ load_insert(ChatRoom, 1)

SpecRetry ==
    /\ Init
    /\ [][NextRetry]_vars
    /\ WF_vars(Advance \/ Elapse)
    /\ WF_vars(load_older)
    /\ WF_vars(load_insert(ChatRoom, 1))

\* SpecTyping: typing notices arrive for one room while time passes and the
\* pagination loop fetches the room's history
NextTyping ==
    \/ Advance
    \/ Elapse
    \/ \E user_ids \in TypingLists : sync_typing(ChatRoom, user_ids)
    \/ mark_for_load(ChatRoom)
    \/ load_older

SpecTyping == Init /\ [][NextTyping]_vars

\* SpecCommands: the user enters :verify and :invite command lines of up to
\* MaxArgs words and :room lines of one word more
NextCommands ==
    \/ \E args \in ArgLists : input_cmd("verify", args)
    \/ \E args \in ArgLists : input_cmd("invite", args)
    \/ \E args \in RoomArgLists : input_cmd("room", args)

SpecCommands == InitLog /\ [][NextCommands]_vars

\* SpecTasks: two callers asking an initialized, logged-in worker for rooms
\* and their members, by ids the client knows and by one it does not.  The
\* worker's task is scheduled and a handler returns.
NextTasks ==
    \/ \E c \in Callers, kind \in {"GetRoom", "Members"},
          room_id \in {ChatRoom, UnknownRoomId} : call(c, kind, room_id)
    \/ \E c \in Callers : recv(c)
    \/ work_recv
    \/ run

SpecTasks ==
    /\ InitLog
    /\ [][NextTasks]_vars
    /\ WF_vars(work_recv)
    /\ WF_vars(run)

\* SpecFit: one call of fit_dimensions or of find_fit per behaviour, with
\* positive sizes and bounds
NextFit ==
    \/ \E width \in Dims, height \in Dims, bound_width \in Dims, bound_height \in Dims :
          fit(width, height, bound_width, bound_height)
    \/ \E img_width \in Dims, img_height \in Dims, height \in Dims :
          preview_fit(img_width, img_height, height)

SpecFit == InitLog /\ [][NextFit]_vars

\* SpecCompose: the window of ChatRoom, whose homeserver holds a message of
\* another user: the user types, toggles the focus, sends and uploads, and
\* runs every message action with the cursor on any entry of the log or on
\* none, while live sync folds what the homeserver holds
InitCompose == InitStore /\ server = [e \in 1..1 |-> History(e)]

NextCompose ==
    \/ \E e \in EventIds : sync_message(e)
    \/ \E act \in {"Submit", "Upload"} : send_command(act)
    \/ \E act \in MessageActions, sel \in 0..MaxEvents : message_command(act, sel)
    \/ \E text \in Bodies : type_text(text)
    \/ focus_toggle

SpecCompose == InitCompose /\ [][NextCompose]_vars

\* the client after Requester::init has returned and before Requester::login
\* is called, the homeserver holding the fixed history
InitLogin ==
    /\ NewStore
    /\ NoCalls
    /\ server = [e \in 1..MaxHistory |-> History(e)]
    /\ initialized = TRUE
    /\ sync_handle = "None"
    /\ rcpt_handle = "Running"
    /\ load_handle = "Running"
    /\ rcpt = RcptTick

\* SpecLogin: two callers that log in and ask for the room, with the store's
\* lock held or not, and the worker's task loop
NextLogin ==
    \/ \E c \in Callers : ui_lock(c)
    \/ \E c \in Callers : ui_unlock(c)
    \/ \E c \in Callers : call(c, "Login", "")
    \/ \E c \in Callers : call(c, "GetRoom", ChatRoom)
    \/ \E c \in Callers : recv(c)
    \/ work_recv
    \/ run
    \/ sync_once

SpecLogin == InitLogin /\ [][NextLogin]_vars

(***************************************************************************)
(* Properties.                                                             *)
(***************************************************************************)
Info(r) == get_or_default(rooms, r)
InfoNext(r) == get_or_default(rooms', r)

InWindow(info) ==
    /\ info.fetch_last # None
    /\ now - Unwrap(info.fetch_last) < ROOM_FETCH_DEBOUNCE

\* C1: at most one history fetch per room is outstanding, and a tick that
\* meets a room whose fetching flag is set puts it back into need_load,
\* leaves its fetch status, fetching flag and fetch_last as they were and
\* spawns no fetch for it.
C1_OneFetchInFlight ==
    [][\A r \in RoomIds :
          /\ Len(tasks'[r]) <= 1
          /\ (last'.op = "load_older" /\ r \in need_load /\ Info(r).fetching) =>
                /\ r \in need_load'
                /\ InfoNext(r).fetch_id = Info(r).fetch_id
                /\ InfoNext(r).fetching = Info(r).fetching
                /\ InfoNext(r).fetch_last = Info(r).fetch_last
                /\ tasks'[r] = tasks[r]]_vars

\* a tick has just re-queued a room whose fetch is still outstanding
C1_Witness ==
    /\ last.op = "load_older"
    /\ \E r \in need_load : Info(r).fetching /\ Len(tasks[r]) = 1 /\ ~InWindow(Info(r))

\* C3: the fetch status never returns to NotStarted, Done never changes
\* again, and no fetch is spawned for a room that is Done, marked or not.
C3_StatusForward ==
    [][\A r \in RoomIds :
          /\ Info(r).fetch_id.st # "NotStarted" => InfoNext(r).fetch_id.st # "NotStarted"
          /\ Info(r).fetch_id.st = "HaveMore" => InfoNext(r).fetch_id.st \in {"HaveMore", "Done"}
          /\ Info(r).fetch_id = Done =>
                /\ InfoNext(r).fetch_id = Done
                /\ tasks[r] = <<>>
                /\ tasks'[r] = <<>>]_vars

\* a room that is Done was marked for load and met by the tick: it is claimed
\* and nothing is spawned for it
C3_Witness ==
    /\ last.op = "load_older"
    /\ \E r \in last.arg[1] :
          /\ Info(r).fetch_id = Done
          /\ r \notin need_load
          /\ tasks[r] = <<>>

\* C4: a failed fetch clears fetching, leaves the fetch status, the Message
\* Log and the rest of the RoomInfo as they were, and puts the room back into
\* need_load.
C4_FailureRetries ==
    [][(last'.op = "load_insert" /\ ~last'.ok) =>
          LET r == last'.room
          IN  /\ Len(tasks'[r]) < Len(tasks[r])
              /\ InfoNext(r) = [Info(r) EXCEPT !.fetching = FALSE]
              /\ r \in need_load']_vars

\* a fetch planned from HaveMore has just failed
C4_Witness ==
    /\ last.op = "load_insert"
    /\ ~last.ok
    /\ Info(last.room).fetch_id.st = "HaveMore"
    /\ ~Info(last.room).fetching
    /\ last.room \in need_load

LogKeys(info) == BTreeKeys(info.messages)
EventKey(ev) == MessageKey(OriginServer(ev.origin_server_ts), ev.event_id)

\* iteration of the log ascends: timestamps first, event ids on equal
\* timestamps, LocalEcho entries last
Ascending(m) ==
    \A i, j \in 1..Len(m) :
        i < j =>
            LET a == m[i].key
                b == m[j].key
            IN  \/ a[1].tag = "OriginServer" /\ b[1].tag = "LocalEcho"
                \/ a[1].tag = b[1].tag /\ a[1].ts < b[1].ts
                \/ a[1].tag = b[1].tag /\ a[1].ts = b[1].ts /\ a[2] < b[2]

NoEdits(chunk) == \A i \in 1..Len(chunk) : ~IsReplacement(chunk[i])

\* what C5 says of a successful fold, for the pages that satisfy Covered
FoldsPage(Covered(_)) ==
    (last'.op = "load_insert" /\ last'.ok) =>
        LET r == last'.room
            res == last'.arg[1]
            n == Len(res.chunk)
        IN  /\ InfoNext(r).fetch_id =
                   IF res.end = None THEN Done ELSE HaveMore(Unwrap(res.end))
            /\ ~InfoNext(r).fetching
            /\ Covered(res.chunk) =>
                  /\ \A i \in 1..n : EventKey(res.chunk[i]) \in LogKeys(InfoNext(r))
                  /\ Ascending(InfoNext(r).messages)
                  /\ Info(r).messages = <<>> => Len(InfoNext(r).messages) = n

AnyPage(chunk) == TRUE

\* C5 as stated: after a successful fetch of a page of N message events the
\* status is HaveMore(c) or Done, fetching is false and the log holds all N
\* events in key order, exactly N of them if it was empty before.
C5_AllEventsInLog == [][FoldsPage(AnyPage)]_vars

\* C5 (amended): the same for a page none of whose events carries a
\* replacement relation; the status and the fetching flag are set for every
\* page.
C5_MessagesInLog == [][FoldsPage(NoEdits)]_vars

\* an empty room has just folded a page of two messages with next cursor c1
C5_Witness ==
    /\ last.op = "load_insert"
    /\ last.ok
    /\ last.arg[1].end = Some("c1")
    /\ Len(last.arg[1].chunk) = 2
    /\ NoEdits(last.arg[1].chunk)
    /\ Len(Info(last.room).messages) = 2
    /\ Info(last.room).fetch_id = HaveMore("c1")
    /\ ~Info(last.room).fetching

\* C6: a tick re-queues a room of need_load whose last fetch lies within the
\* debounce window and spawns nothing for it, and two fetches of one room are
\* never spawned less than ROOM_FETCH_DEBOUNCE apart.
C6_Debounce ==
    [][\A r \in RoomIds :
          /\ (last'.op = "load_older" /\ r \in need_load /\ InWindow(Info(r))) =>
                r \in need_load' /\ tasks'[r] = tasks[r]
          /\ Len(tasks'[r]) > Len(tasks[r]) =>
                \/ fetch_issued[r] = None
                \/ now - Unwrap(fetch_issued[r]) >= ROOM_FETCH_DEBOUNCE]_vars

\* a tick has just re-queued an idle room only because of the window, after
\* its earlier fetch had failed
C6_Witness ==
    /\ last.op = "load_older"
    /\ \E r \in need_load :
          /\ ~Info(r).fetching
          /\ tasks[r] = <<>>
          /\ InWindow(Info(r))
          /\ fetch_issued[r] # None

\* the entries of the log that belong to one event id
EntriesOf(info, event_id) ==
    {i \in 1..Len(info.messages) : info.messages[i].key[2] = event_id}

\* the sends of the message bar that showed a local echo
EchoSends ==
    {e \in DOMAIN server : server[e].sender = OwnUser /\ server[e].relates_to = 0}

\* C2: from the send on, the log holds exactly one entry for the event id of
\* a send that showed an echo: the entry keyed LocalEcho until the server's
\* copy is folded, the entry keyed by the server's timestamp from then on.
C2_OneEntryPerSend ==
    \A e \in EchoSends :
        LET info == Info(server[e].room)
            at == EntriesOf(info, e)
        IN  /\ Cardinality(at) = 1
            /\ \A i \in at :
                  IF e \in DOMAIN info.keys
                  THEN info.messages[i].key = EventKey(server[e])
                  ELSE /\ info.messages[i].key = MessageKey(LocalEcho, e)
                       /\ info.messages[i].msg.event = "Local"

\* the server's copy of an echoed send has just been folded
C2_Witness ==
    /\ last.op = "sync_message"
    /\ last.arg[1].event_id \in EchoSends
    /\ EventKey(last.arg[1]) \in LogKeys(Info(last.room))
    /\ \E e \in EchoSends : MessageKey(LocalEcho, e) \in LogKeys(Info(last.room))

\* C7: iterating a Message Log yields ascending keys: by timestamp, by event
\* id on equal timestamps, every LocalEcho entry after every entry with a
\* server timestamp; so the order is fixed by the keys, not by the calls.
C7_LogSorted == \A r \in DOMAIN rooms : Ascending(rooms[r].messages)

\* a message has just been folded in front of an entry with the same
\* timestamp and a greater event id
C7_Witness ==
    /\ last.op = "sync_message"
    /\ LET m == Info(last.room).messages
       IN  /\ Len(m) = 2
           /\ m[1].key = EventKey(last.arg[1])
           /\ m[1].key[1] = m[2].key[1]
           /\ m[1].key[2] < m[2].key[2]

RECURSIVE SortKeys(_)
\* the keys of a set in ascending order, least first
SortKeys(ks) ==
    IF ks = {} THEN <<>>
    ELSE LET least == CHOOSE k \in ks : \A o \in ks \ {k} :
                          \/ k[1].ts < o[1].ts
                          \/ k[1].ts = o[1].ts /\ k[2] < o[2]
         IN  <<least>> \o SortKeys(ks \ {least})

\* the message events of the room's history
RoomMessages(room_id) == {e \in RoomEvents(room_id) : ~IsReplacement(server[e])}

\* C8: whatever part of a room's events live sync folds and whatever part
\* pagination folds, and in whatever order, the log lists the folded
\* messages in the one order their keys fix; once all are folded every
\* interleaving has ended with the same log order.
C8_FoldsConverge ==
    LET info == Info(ChatRoom)
        keys == [i \in 1..Len(info.messages) |-> info.messages[i].key]
    IN  /\ keys = SortKeys({EventKey(server[e]) : e \in DOMAIN info.keys})
        /\ RoomMessages(ChatRoom) \subseteq DOMAIN info.keys =>
              keys = SortKeys({EventKey(server[e]) : e \in RoomMessages(ChatRoom)})

\* the room's only fetch so far has just folded a page with one of the
\* messages, live sync had folded the others, and all of them are in the log
C8_Witness ==
    /\ last.op = "load_insert"
    /\ last.ok
    /\ now = 0
    /\ Len(last.arg[1].chunk) = 1
    /\ NoEdits(last.arg[1].chunk)
    /\ Info(ChatRoom).name # None
    /\ Len(Info(ChatRoom).messages) >= 2
    /\ RoomMessages(ChatRoom) \subseteq DOMAIN Info(ChatRoom).keys

\* the replacements an edit event can carry
Replacements == [event_id : EventIds, new_content : Bodies]

\* C9: an edit whose target is not in the key index changes nothing: log,
\* key index and the rest of the RoomInfo stay as they are.
C9_EditUnknownTarget ==
    \A r \in DOMAIN rooms, repl \in Replacements :
        repl.event_id \notin DOMAIN rooms[r].keys =>
            /\ insert_edit(rooms[r], repl) = rooms[r]
            /\ \A e \in EventIds, ts \in Timestamps, u \in Users :
                  insert(rooms[r], NewEvent(e, r, ts, u, repl.event_id, repl.new_content))
                      = rooms[r]

\* live sync has just folded an edit whose target is not in the key index
\* of a room that holds messages
C9_Witness ==
    /\ last.op = "sync_message"
    /\ IsReplacement(last.arg[1])
    /\ last.arg[1].relates_to \notin DOMAIN Info(last.room).keys
    /\ Info(last.room).messages # <<>>

\* the entry an event id resolves to, 0 if none
Resolve(info, event_id) ==
    IF event_id \in DOMAIN info.keys /\ info.keys[event_id].loc = "Message"
    THEN BTreeFind(info.messages, info.keys[event_id].key)
    ELSE 0

\* C10: an edit whose target is Redacted changes nothing, and an edit that
\* changes anything changes the body of an Original or Local target only.
C10_EditRedactedTarget ==
    \A r \in DOMAIN rooms, repl \in Replacements :
        LET info == rooms[r]
            i == Resolve(info, repl.event_id)
        IN  IF i # 0 /\ info.messages[i].msg.event \in {"Original", "Local"}
            THEN insert_edit(info, repl) =
                     [info EXCEPT !.messages[i].msg.content = repl.new_content]
            ELSE insert_edit(info, repl) = info

\* live sync has just folded an edit whose target is a Redacted entry
C10_Witness ==
    /\ last.op = "sync_message"
    /\ IsReplacement(last.arg[1])
    /\ LET info == Info(last.room)
           i == Resolve(info, last.arg[1].relates_to)
       IN  /\ i # 0
           /\ info.messages[i].msg.event = "Redacted"
           /\ info.messages[i].msg.content = ""

IndexKeys(info) == DOMAIN info.keys

\* the room message events a handler can be handed for room r
MessageEvents(r) ==
    LET originals == {NewEvent(e, r, ts, u, rel, c) :
                         e \in EventIds, ts \in Timestamps, u \in Users,
                         rel \in {0} \cup EventIds, c \in Bodies}
    IN  originals \cup {RedactedForm(ev) : ev \in originals}

\* C11: insert hands an event with a replacement relation to insert_edit and
\* every other event to insert_message, and the fold of a replacement leaves
\* the set of log keys and the set of index keys as they were, whether its
\* target is in the index or not.
C11_EditsNeverCreate ==
    \A r \in DOMAIN rooms : \A ev \in MessageEvents(r) :
        LET info == rooms[r]
            repl == [event_id |-> ev.relates_to, new_content |-> ev.content]
        IN  IF ev.kind = "Original" /\ ev.relates_to # 0
            THEN /\ insert(info, ev) = insert_edit(info, repl)
                 /\ LogKeys(insert(info, ev)) = LogKeys(info)
                 /\ IndexKeys(insert(info, ev)) = IndexKeys(info)
                 /\ Len(insert(info, ev).messages) = Len(info.messages)
            ELSE insert(info, ev) = insert_message(info, ev)

\* live sync has just folded an edit whose target is an Original entry: the
\* entry has the new body and the log has no entry for the edit's own id
C11_Witness ==
    /\ last.op = "sync_message"
    /\ IsReplacement(last.arg[1])
    /\ LET info == Info(last.room)
           i == Resolve(info, last.arg[1].relates_to)
       IN  /\ i # 0
           /\ info.messages[i].msg.event = "Original"
           /\ info.messages[i].msg.content = last.arg[1].content
           /\ last.arg[1].event_id \notin IndexKeys(info)
           /\ EntriesOf(info, last.arg[1].event_id) = {}

\* the redaction handler has just run for target t of room r
Redacted(r, t) == last'.op = "sync_redaction" /\ last'.room = r /\ last'.arg = <<t>>

\* the reaction table of message m, empty if it has none
ReactionsOf(info, m) == IF m \in DOMAIN info.reactions THEN info.reactions[m] ELSE EmptyMap

\* C12: the redaction of an event id the index maps to a reaction marker
\* removes that reaction, and only it, from the table of the message it was
\* attached to, drops that id from the index and leaves the log, the rest of
\* the index and the rest of the RoomInfo as they were.
C12_RedactReaction ==
    [][\A r \in RoomIds, t \in DOMAIN server :
          (Redacted(r, t) /\ t \in IndexKeys(Info(r)) /\ Info(r).keys[t].loc = "Reaction") =>
              LET m == Info(r).keys[t].key
              IN  /\ InfoNext(r).messages = Info(r).messages
                  /\ InfoNext(r).keys = MapRemove(Info(r).keys, t)
                  /\ ReactionsOf(InfoNext(r), m) = MapRemove(ReactionsOf(Info(r), m), t)
                  /\ \A o \in DOMAIN Info(r).reactions \ {m} :
                        ReactionsOf(InfoNext(r), o) = Info(r).reactions[o]
                  /\ [InfoNext(r) EXCEPT !.keys = Info(r).keys,
                                         !.reactions = Info(r).reactions] = Info(r)]_vars

\* the redaction of one of two reactions to a message has just been folded:
\* the other reaction is still in the table, the message still in the log
C12_Witness ==
    /\ last.op = "sync_redaction"
    /\ IsReaction(server[last.arg[1]])
    /\ last.arg[1] \notin IndexKeys(Info(last.room))
    /\ LET m == server[last.arg[1]].relates_to
       IN  /\ m \in DOMAIN Info(last.room).reactions
           /\ last.arg[1] \notin DOMAIN Info(last.room).reactions[m]
           /\ Cardinality(DOMAIN Info(last.room).reactions[m]) = 1
           /\ Resolve(Info(last.room), m) # 0

\* C13: the redaction of an event id that is not in the key index changes
\* nothing: log, index, reaction table and the rest of the store are as
\* before, and the handler returns.
C13_RedactUnknown ==
    [][\A r \in RoomIds, t \in DOMAIN server :
          (Redacted(r, t) /\ t \notin IndexKeys(Info(r))) =>
              /\ InfoNext(r) = Info(r)
              /\ \A o \in DOMAIN rooms : rooms'[o] = rooms[o]
              /\ UNCHANGED <<need_load, tasks, workerVars, lockVars>>]_vars

\* the redaction of a message that was never folded has just been handled
\* in a room that holds another message and a reaction
C13_Witness ==
    /\ last.op = "sync_redaction"
    /\ ~IsReaction(server[last.arg[1]])
    /\ last.arg[1] \notin IndexKeys(Info(last.room))
    /\ EntriesOf(Info(last.room), last.arg[1]) = {}
    /\ Info(last.room).messages # <<>>
    /\ Info(last.room).reactions # EmptyMap

\* C14: the redaction of an event id the index maps to a message key
\* redacts that entry in place: the log has the same keys in the same order,
\* the entry at the target key is Redacted, every other entry, the index and
\* the rest of the RoomInfo are as before.
C14_RedactMessage ==
    [][\A r \in RoomIds, t \in DOMAIN server :
          (Redacted(r, t) /\ t \in IndexKeys(Info(r)) /\ Info(r).keys[t].loc = "Message") =>
              LET before == Info(r).messages
                  after == InfoNext(r).messages
                  key == Info(r).keys[t].key
              IN  /\ Len(after) = Len(before)
                  /\ \A i \in 1..Len(before) :
                        /\ after[i].key = before[i].key
                        /\ IF before[i].key = key
                           THEN /\ after[i].msg.event = "Redacted"
                                /\ after[i].msg.content = ""
                                /\ after[i].msg.sender = before[i].msg.sender
                           ELSE after[i] = before[i]
                  /\ \E i \in 1..Len(before) : before[i].key = key
                  /\ [InfoNext(r) EXCEPT !.messages = before] = Info(r)]_vars

\* the redaction of the older of two Original messages has just been folded:
\* it is Redacted at its place in front of the other, which is as it was
C14_Witness ==
    /\ last.op = "sync_redaction"
    /\ LET m == Info(last.room).messages
       IN  /\ Len(m) = 2
           /\ m[1].key[2] = last.arg[1]
           /\ m[1].msg.event = "Redacted"
           /\ m[2].msg.event = "Original"
           /\ m[2].msg.content = "a"

\* the step is run(task) for the task t
Ran(t) == last'.op = "run" /\ last'.arg = <<t>> /\ work.pc = "run" /\ work.task = Some(t)

Tasks ==
    UNION {{WorkerTask(id, kind, r) : r \in TaskRooms(kind)} :
           id \in 1..MaxTasks, kind \in TaskKinds}

\* C15: the worker starts uninitialized; run executes an Init task only
\* while uninitialized, and that sets initialized, which is never cleared;
\* it executes any other task only while initialized; a task that meets the
\* wrong state panics the worker for good and has no effect: no reply, no
\* loop spawned, initialized as it was.
C15_InitFirst ==
    /\ ~initialized
    /\ [][/\ initialized => initialized'
          /\ work.pc = "panicked" => work'.pc = "panicked"
          /\ \A t \in Tasks :
                Ran(t) =>
                    /\ last'.ok = (IF t.kind = "Init" THEN ~initialized ELSE initialized)
                    /\ last'.ok => initialized' /\ work'.pc = "recv" /\ runs' = Append(runs, t)
                    /\ ~last'.ok =>
                          /\ work'.pc = "panicked"
                          /\ UNCHANGED <<initialized, sync_handle, rcpt_handle, load_handle,
                                         replies, runs, storeVars>>]_vars

\* a second Init task has just tripped the assertion of an initialized
\* worker, after the first had been executed
C15_Witness ==
    /\ last.op = "run"
    /\ ~last.ok
    /\ last.arg[1].kind = "Init"
    /\ initialized
    /\ work.pc = "panicked"
    /\ Len(runs) >= 1
    /\ runs[1].kind = "Init"

IsPrefix(a, b) == Len(a) <= Len(b) /\ a = SubSeq(b, 1, Len(a))

\* C17: the tasks run have returned in the order they were sent; the task
\* inside run is the one sent right after them, so it was not started before
\* they had returned and replied; the channel holds the tasks sent after it
\* in send order; a reply exists only for a task that has returned.
C17_SendOrder ==
    /\ IsPrefix(runs, sends)
    /\ work.pc = "run" =>
          /\ Len(runs) < Len(sends)
          /\ work.task = Some(sends[Len(runs) + 1])
          /\ rx = SubSeq(sends, Len(runs) + 2, Len(sends))
    /\ work.pc = "recv" => rx = SubSeq(sends, Len(runs) + 1, Len(sends))
    /\ \A id \in DOMAIN replies :
          replies[id] # <<>> => \E i \in 1..Len(runs) : runs[i].id = id

\* the second task sent is inside run while the third waits in the channel
\* and the first has returned
C17_Witness ==
    /\ work.pc = "run"
    /\ Len(runs) = 1
    /\ Unwrap(work.task).id = 2
    /\ Len(rx) = 1
    /\ rx[1].id = 3

\* C18: a reply channel carries at most one value, and exactly one, sent by
\* the handling of its own request, once run has returned for that request,
\* whatever the handler returned; a caller inside a replying method waits
\* until then and returns that value; a TypingNotice has no reply channel
\* and nobody waits for it.
C18_OneReply ==
    /\ \A id \in DOMAIN replies :
          /\ Len(replies[id]) <= 1
          /\ (Len(replies[id]) = 1) = (\E i \in 1..Len(runs) : runs[i].id = id)
          /\ \A i \in 1..Len(replies[id]) : replies[id][i].for = id
    /\ \A i \in 1..Len(sends) :
          (sends[i].id \in DOMAIN replies) = HasReply(sends[i].kind)
    /\ \A c \in Callers :
          /\ callers[c].pc = "waiting" =>
                /\ callers[c].req \in DOMAIN replies
                /\ callers[c].got = None
          /\ callers[c].got # None =>
                /\ callers[c].pc = "idle"
                /\ callers[c].got = Some(replies[callers[c].req][1])
                /\ Unwrap(callers[c].got).for = callers[c].req
          /\ (callers[c].req \in DOMAIN replies /\ replies[callers[c].req] = <<>>) =>
                callers[c].pc \in {"waiting", "panicked"}
    /\ (last.op = "call" /\ last.arg[2] = "TypingNotice") =>
          callers[last.arg[1]].pc \in {"idle", "panicked"}

\* a caller has just returned from get_room with the error its own request
\* was answered with
C18_Witness ==
    /\ last.op = "recv"
    /\ \E c \in Callers :
          /\ last.arg = <<c>>
          /\ callers[c].pc = "idle"
          /\ callers[c].got =
                 Some([for |-> callers[c].req, value |-> "Err(Matrix)"])

\* C19 as stated: nobody holds the store's lock while suspended on a network
\* operation.
C19_NoLockAcrossNetwork == ~(lock = Some("rcpt") /\ rcpt.pc = "read_receipt")

\* a fetch of room r has just been folded as a success
FetchSucceeded(r) == last.op = "load_insert" /\ last.room = r /\ last.ok

\* a tick has just spawned a fetch of room r
FetchSpawned(r) == last.op = "load_older" /\ r \in last.arg[2]

\* C20: if no fetch of a room ever succeeds, then each failure puts the room
\* back into need_load and tells no caller of the Requester, the room's fetch
\* status stays what it was, and once the room has been marked for load a
\* fetch is spawned for it again and again, without end.
C20_RetryForever ==
    /\ [][(last'.op = "load_insert" /\ ~last'.ok) =>
             /\ last'.room \in need_load'
             /\ InfoNext(last'.room).fetch_id = Info(last'.room).fetch_id
             /\ UNCHANGED <<callers, replies>>]_vars
    /\ [](~FetchSucceeded(ChatRoom)) =>
          /\ [](Info(ChatRoom).fetch_id = NotStarted)
          /\ <>(ChatRoom \in need_load) => []<>FetchSpawned(ChatRoom)

\* a tick has just spawned a fetch for a room it had fetched before and
\* that is NotStarted as ever, its earlier fetch having failed
C20_Witness ==
    /\ last.op = "load_older"
    /\ ChatRoom \in last.arg[3]
    /\ now = MaxTime
    /\ Info(ChatRoom).fetch_id = NotStarted
    /\ Len(tasks[ChatRoom]) = 1

\* the reply an unknown room id is answered with
UnknownRoomReply(t) == [for |-> t.id, value |-> UnknownRoom(t.room)]

\* C21: a GetRoom or Members task for a room id the client does not know is
\* answered on its own reply channel with Err(UnknownRoom(id)) and leaves
\* the worker as it was, back at rx.recv() with the channel untouched; the
\* worker never stops, and every task sent, before or after a failed one,
\* is eventually answered.
C21_ErrorReplied ==
    /\ [][\A t \in Tasks :
             (Ran(t) /\ t.kind \in {"GetRoom", "Members"} /\ ~client_get_room(t.room)) =>
                 /\ replies' = [replies EXCEPT ![t.id] = <<UnknownRoomReply(t)>>]
                 /\ work' = WorkRecv
                 /\ UNCHANGED <<rx, initialized, sync_handle, rcpt_handle, load_handle,
                                storeVars>>]_vars
    /\ [](work.pc \in {"recv", "run"})
    /\ \A id \in 1..MaxTasks :
          (Len(sends) >= id) ~> (id \in DOMAIN replies /\ replies[id] # <<>>)

\* a GetRoom and then a Members task for the unknown room id were answered
\* with the error, and the task sent after them was answered with a room
C21_Witness ==
    /\ Len(runs) = 3
    /\ runs[1].kind = "GetRoom"
    /\ runs[2].kind = "Members"
    /\ replies[runs[1].id] = <<UnknownRoomReply(runs[1])>>
    /\ replies[runs[2].id] = <<UnknownRoomReply(runs[2])>>
    /\ runs[1].room = UnknownRoomId
    /\ runs[3].kind = "GetRoom"
    /\ replies[runs[3].id] = <<[for |-> runs[3].id, value |-> "Ok"]>>
    /\ work.pc = "recv"

\* C22: a Submit that completes sent non-blank text.  If a message was
\* selected for editing, the event sent is a replacement of that message's
\* event id and the log of the room is left exactly as it was: no local
\* echo, no other entry.  If none was, the event carries no replacement and
\* the log gains one entry, the local echo of the event sent.  So the echo
\* is there after the Submit if and only if editing was not set.
C22_EditSendsNoEcho ==
    [][(last'.op = "send_command" /\ last'.arg[2] = "Submit") =>
          LET event_id == last'.arg[1]
              before == get_or_default(rooms, ChatRoom)
              after == rooms'[ChatRoom]
              echo == MessageKey(LocalEcho, event_id)
          IN  /\ server'[event_id].content = tbox
              /\ ~is_blank(tbox)
              /\ server'[event_id].sender = OwnUser
              /\ editing # None =>
                    /\ server'[event_id].relates_to = Unwrap(editing)[2]
                    /\ after.messages = before.messages
                    /\ after.keys = before.keys
              /\ editing = None =>
                    /\ server'[event_id].relates_to = 0
                    /\ after.messages = BTreeInsert(before.messages, echo,
                                            LocalMessage(event_id, server'[event_id].content,
                                                         OwnUser))
                    /\ Len(after.messages) = Len(before.messages) + 1
              /\ (echo \in LogKeys(after)) = (editing = None)]_vars

\* a Submit made while a message of the log was selected for editing has
\* just completed: the event sent replaces that message and has no echo
C22_Witness ==
    /\ last.op = "send_command"
    /\ last.arg[2] = "Submit"
    /\ server[last.arg[1]].relates_to \in DOMAIN server
    /\ EntriesOf(Info(ChatRoom), server[last.arg[1]].relates_to) # {}
    /\ EntriesOf(Info(ChatRoom), last.arg[1]) = {}
    /\ Info(ChatRoom).messages # <<>>

\* C23: a receipt refresh that covers room r with the newly computed map
\* leaves r's receipts equal to exactly that map, so that an entry of the
\* previous map survives only if the new map has it; it touches nothing
\* else of r but the pending marker, it creates no room and it changes no
\* other room.
C23_ReceiptsReplaced ==
    [][last'.op = "rcpt_loop" =>
          LET r == last'.room
              new == last'.arg[1]
          IN  /\ DOMAIN rooms' = DOMAIN rooms
              /\ \A q \in DOMAIN rooms \ {r} : rooms'[q] = rooms[q]
              /\ r \in DOMAIN rooms =>
                    /\ rooms'[r].receipts = new
                    /\ \A e \in DOMAIN rooms[r].receipts \ DOMAIN new :
                          e \notin DOMAIN rooms'[r].receipts
                    /\ rooms'[r] = [rooms[r] EXCEPT !.receipts = new, !.read_till = None]]_vars

\* a refresh has just replaced a map with a receipt at one event by a map
\* with a receipt at another event only
C23_Witness ==
    /\ last.op = "rcpt_loop"
    /\ last.room \in DOMAIN rooms
    /\ last.arg[1] # EmptyMap
    /\ last.arg[2] # EmptyMap
    /\ DOMAIN last.arg[1] \cap DOMAIN last.arg[2] = {}
    /\ rooms[last.room].receipts = last.arg[1]

\* C24 as stated: a refresh that covers a room of the registry leaves it
\* without a pending marker, and if the room had a marker for event X the
\* refresh has the read receipt for X on its way when the marker is gone.
C24_MarkerNeedsReceipt ==
    [][(last'.op = "rcpt_loop" /\ last'.room \in DOMAIN rooms) =>
          LET r == last'.room
          IN  /\ rooms'[r].read_till = None
              /\ rooms[r].read_till # None =>
                    /\ rcpt'.pc = "read_receipt"
                    /\ rcpt'.updates =
                           <<[room |-> r, read_till |-> Unwrap(rooms[r].read_till)]>>]_vars

\* C25: a typing notice leaves the room with exactly the users of the
\* notice, the local user left out, in the notice's order, captured at the
\* time of the notice, whatever was stored before; and no stored typing set
\* ever contains the local user.
C25_TypingReplaced ==
    /\ [](\A r \in DOMAIN rooms :
             rooms[r].users_typing # None =>
                 \A i \in 1..Len(Unwrap(rooms[r].users_typing)[2]) :
                     Unwrap(rooms[r].users_typing)[2][i] # OwnUser)
    /\ [][last'.op = "sync_typing" =>
             LET user_ids == last'.arg[1]
                 stored == Unwrap(rooms'[last'.room].users_typing)
             IN  /\ rooms'[last'.room].users_typing # None
                 /\ stored[1] = now
                 /\ \A u \in Users \cup {Typists[i] : i \in 1..Len(Typists)} :
                       (\E i \in 1..Len(stored[2]) : stored[2][i] = u) =
                       (u # OwnUser /\ \E i \in 1..Len(user_ids) : user_ids[i] = u)
                 /\ \A i, j \in 1..Len(stored[2]) :
                       i < j => \E k, l \in 1..Len(user_ids) :
                                   k < l /\ user_ids[k] = stored[2][i]
                                         /\ user_ids[l] = stored[2][j]]_vars

\* a notice naming the local user between two other users has just been
\* ingested, after time had passed: the two others are stored, in order
C25_Witness ==
    /\ last.op = "sync_typing"
    /\ last.arg[1] = <<"t2", OwnUser, "t1">>
    /\ Info(ChatRoom).users_typing = Some(<<now, <<"t2", "t1">> >>)
    /\ now > 0

\* the seconds since the typing set of info was captured
TypingAge(info) == now - Unwrap(info.users_typing)[1]

TypingUsers(info) == Unwrap(info.users_typing)[2]

\* C26: a typing set captured 4 seconds ago or earlier renders as no users
\* and an empty line however many users it holds, and a set captured less
\* than 4 seconds ago renders its users; the fetch debounce of the same
\* room ends after 2 seconds whatever the age of the typing set.
C26_TypingStale ==
    \A r \in DOMAIN rooms :
        LET info == rooms[r]
        IN  /\ info.users_typing # None =>
                  /\ TypingAge(info) >= 4 =>
                        get_typers(info) = <<>> /\ get_typing_spans(info) = <<>>
                  /\ TypingAge(info) < 4 => get_typers(info) = TypingUsers(info)
            /\ info.fetch_last # None =>
                  recently_fetched(info) = (now - Unwrap(info.fetch_last) < 2)

\* a typing set of six users captured 4 seconds ago renders as empty, in a
\* room whose fetch debounce has run out as well
C26_Witness ==
    /\ ChatRoom \in DOMAIN rooms
    /\ Info(ChatRoom).users_typing # None
    /\ Len(TypingUsers(Info(ChatRoom))) = 6
    /\ TypingAge(Info(ChatRoom)) = 4
    /\ get_typing_spans(Info(ChatRoom)) = <<>>
    /\ Info(ChatRoom).fetch_last # None
    /\ ~recently_fetched(Info(ChatRoom))

RECURSIVE Line(_)
\* the text of a line of spans
Line(spans) == IF spans = <<>> THEN "" ELSE Head(spans) \o Line(Tail(spans))

\* C27: the typing line of a room is empty if no typing set was captured;
\* for a set of n users captured less than 4 seconds ago it is empty for
\* n = 0, "<user> is typing..." for n = 1, "<u1> and <u2> are typing..." in
\* stored order for n = 2, "Several people are typing..." for n = 3 and 4,
\* "Many people are typing..." for n >= 5.
C27_TypingLine ==
    \A r \in DOMAIN rooms :
        LET info == rooms[r]
            line == Line(get_typing_spans(info))
        IN  /\ info.users_typing = None => line = ""
            /\ (info.users_typing # None /\ TypingAge(info) < 4) =>
                  LET users == TypingUsers(info)
                      n == Len(users)
                  IN  /\ n = 0 => line = ""
                      /\ n = 1 => line = get_user_span(users[1]) \o " is typing..."
                      /\ n = 2 => line = get_user_span(users[1]) \o " and " \o
                                         get_user_span(users[2]) \o " are typing..."
                      /\ n \in {3, 4} => line = "Several people are typing..."
                      /\ n >= 5 => line = "Many people are typing..."

\* a fresh typing set of exactly five users renders as "Many people"
C27_Witness ==
    /\ ChatRoom \in DOMAIN rooms
    /\ Info(ChatRoom).users_typing # None
    /\ Len(TypingUsers(Info(ChatRoom))) = 5
    /\ TypingAge(Info(ChatRoom)) < 4
    /\ get_typing_spans(Info(ChatRoom)) = <<"Many people are typing...">>

\* room b is due a fetch at the next tick
Eligible(b) ==
    /\ b \in need_load
    /\ ~Info(b).fetching
    /\ ~InWindow(Info(b))
    /\ Info(b).fetch_id # Done

\* C28: a tick spawns a fetch for every eligible room, whatever the state
\* of the other rooms: in flight, recently fetched, failed or Done; and the
\* fold of a fetch result of room b leaves the Room Info of every other
\* room, its outstanding fetches and its membership in need_load as they
\* were.
C28_RoomsIndependent ==
    [][\A a, b \in RoomIds :
          a # b =>
              /\ (last'.op = "load_older" /\ Eligible(b)) =>
                    /\ tasks'[b] = Append(tasks[b], load_plan_fetch_id(Info(b)))
                    /\ InfoNext(b).fetching
                    /\ b \notin need_load'
              /\ (last'.op = "load_insert" /\ last'.room = b) =>
                    /\ InfoNext(a) = Info(a)
                    /\ (a \in DOMAIN rooms') = (a \in DOMAIN rooms)
                    /\ tasks'[a] = tasks[a]
                    /\ (a \in need_load') = (a \in need_load)]_vars

\* a tick has just spawned a fetch for r2 while it re-queued r1, whose
\* fetch is still in flight
C28_Witness ==
    /\ last.op = "load_older"
    /\ last.arg[1] = {"r1", "r2"}
    /\ last.arg[2] = {"r2"}
    /\ "r1" \in need_load
    /\ Info("r1").fetching
    /\ Len(tasks["r1"]) = 1
    /\ Len(tasks["r2"]) = 1
    /\ Info("r2").fetching

\* the VerifyAction of a subcommand of :verify
VerifyActions ==
    [accept |-> "Accept", cancel |-> "Cancel", confirm |-> "Confirm",
     mismatch |-> "Mismatch"]

\* C29: :verify without words opens the verification list; with two words
\* of which the first is accept, cancel, confirm or mismatch it yields
\* Verify(that action, second word); with `request` and one more word it
\* yields VerifyRequest(that word); every other line (one word, more than
\* two words, an unknown first word) is rejected with InvalidArgument and
\* yields no action.
C29_VerifyShapes ==
    last.op = "verify" =>
        LET args == last.arg[1]
            res == last.arg[2]
            n == Len(args)
            acts == n = 2 /\ args[1] \in DOMAIN VerifyActions
            requests == n = 2 /\ args[1] = "request"
        IN  /\ n = 0 => res = CmdOk(<<"Switch", "VerifyList">>)
            /\ acts => res = CmdOk(<<"Verify", VerifyActions[args[1]], args[2]>>)
            /\ requests => res = CmdOk(<<"VerifyRequest", args[2]>>)
            /\ ~(n = 0 \/ acts \/ requests) => res = CmdErr(InvalidArgument)
            /\ last.ok = res.ok

\* `:verify cancel @user:example.com foo`, three words, was rejected
C29_Witness ==
    /\ last.op = "verify"
    /\ last.arg[1] = <<"cancel", "@user:example.com", "foo">>
    /\ last.arg[2] = CmdErr(InvalidArgument)

\* C30: :invite yields InviteAccept for the one word `accept`,
\* InviteReject for the one word `reject`, InviteSend(user) for `send` and
\* one valid user id; no word, an unknown subcommand, a word after accept
\* or reject, `send` alone and `send` with more than one word are rejected
\* with InvalidArgument; nothing but these three shapes yields an action.
C30_InviteShapes ==
    last.op = "invite" =>
        LET args == last.arg[1]
            res == last.arg[2]
            n == Len(args)
        IN  /\ args = <<"accept">> => res = CmdOk(<<"Room", "InviteAccept">>)
            /\ args = <<"reject">> => res = CmdOk(<<"Room", "InviteReject">>)
            /\ (n = 2 /\ args[1] = "send" /\ args[2] \in ValidUserIds) =>
                  res = CmdOk(<<"Room", "InviteSend", args[2]>>)
            /\ (\/ n = 0
                \/ n >= 1 /\ args[1] \notin {"accept", "reject", "send"}
                \/ n > 1 /\ args[1] \in {"accept", "reject"}
                \/ n # 2 /\ args[1] = "send") => res = CmdErr(InvalidArgument)
            /\ res.ok =>
                  \/ args \in {<<"accept">>, <<"reject">>}
                  \/ n = 2 /\ args[1] = "send" /\ args[2] \in ValidUserIds

\* `:invite accept @user:example.com` was rejected
C30_Witness ==
    /\ last.op = "invite"
    /\ last.arg[1] = <<"accept", "@user:example.com">>
    /\ last.arg[2] = CmdErr(InvalidArgument)

\* C31: a :room line is `<field> <action> [value]`.  `set` with exactly one
\* value yields Set(field, value) for name and topic, `unset` without a
\* value yields Unset(field) for them; for tag both `set` and `unset` take
\* exactly one tag name and yield the action for that tag.  Fewer than two
\* words, more than one value, an unknown field or action, a missing value
\* or a value after `name unset` / `topic unset` is rejected with
\* InvalidArgument, and nothing else yields an action.
C31_RoomShapes ==
    last.op = "room" =>
        LET args == last.arg[1]
            res == last.arg[2]
            n == Len(args)
            known == n >= 2 /\ args[1] \in {"name", "topic", "tag"}
                            /\ args[2] \in {"set", "unset"}
            wants == IF known /\ (args[2] = "set" \/ args[1] = "tag") THEN 3 ELSE 2
            field == IF args[1] = "name" THEN "Name" ELSE "Topic"
        IN  /\ (~known \/ n # wants) => res = CmdErr(InvalidArgument)
            /\ res.ok = (known /\ n = wants /\ (args[1] = "tag" => tag_name(args[3]).ok))
            /\ (res.ok /\ args[1] # "tag" /\ args[2] = "set") =>
                  res.val = <<"Room", "Set", field, args[3]>>
            /\ (res.ok /\ args[1] # "tag" /\ args[2] = "unset") =>
                  res.val = <<"Room", "Unset", field>>
            /\ (res.ok /\ args[1] = "tag") =>
                  /\ res.val[2] = (IF args[2] = "set" THEN "Set" ELSE "Unset")
                  /\ res.val[3] = "Tag(" \o tag_name(args[3]).val \o ")"

\* `:room name unset foo`, a surplus value, was rejected
C31_Witness ==
    /\ last.op = "room"
    /\ last.arg[1] = <<"name", "unset", "foo">>
    /\ last.arg[2] = CmdErr(InvalidArgument)

\* C32 as stated: the fetching flag of a room is set only while a fetch
\* task of the room is outstanding.
C32_FetchingMeansTask ==
    \A r \in RoomIds : Info(r).fetching => Len(tasks[r]) >= 1

\* C33: every message entry of the key index of a room resolves: the log
\* has an entry at the indexed key, and that entry is the message with the
\* indexed event id; so get_event returns a message for every indexed
\* message event id.
C33_IndexResolves ==
    \A r \in DOMAIN rooms :
        \A e \in DOMAIN rooms[r].keys :
            rooms[r].keys[e].loc = "Message" =>
                LET i == Resolve(rooms[r], e)
                IN  /\ i # 0
                    /\ rooms[r].messages[i].key = rooms[r].keys[e].key
                    /\ rooms[r].messages[i].key[2] = e
                    /\ rooms[r].messages[i].msg.event_id = e

\* the redaction handler has just redacted an indexed message of the local
\* user, whose echo had been replaced by the server's copy: the index still
\* resolves to the entry
C33_Witness ==
    /\ last.op = "sync_redaction"
    /\ LET info == Info(last.room)
           i == Resolve(info, last.arg[1])
       IN  /\ i # 0
           /\ info.messages[i].msg.event = "Redacted"
           /\ info.messages[i].msg.sender = OwnUser
           /\ Len(info.messages) = 2

\* a fetch of room r has just been folded as a failure
FetchFailed(r) == last.op = "load_insert" /\ last.room = r /\ ~last.ok

\* C34: a room leaves need_load only in a tick that spawns a fetch for it
\* or finds it Done; and if from some time on no fetch of the room fails,
\* then whenever the room is marked and not Done, a fetch of it is
\* eventually folded as a success, leaving it HaveMore or Done with
\* fetching false.
C34_MarkedGetsFetched ==
    /\ [][\A r \in RoomIds :
             (r \in need_load /\ r \notin need_load') =>
                 /\ last'.op = "load_older"
                 /\ \/ tasks'[r] = Append(tasks[r], load_plan_fetch_id(Info(r)))
                    \/ Info(r).fetch_id = Done]_vars
    /\ <>[](~FetchFailed(ChatRoom)) =>
          ((ChatRoom \in need_load /\ Info(ChatRoom).fetch_id # Done) ~>
               (/\ FetchSucceeded(ChatRoom)
                /\ ~Info(ChatRoom).fetching
                /\ Info(ChatRoom).fetch_id.st \in {"HaveMore", "Done"}))

\* a fetch of the room has just been folded as a success and left it
\* HaveMore with fetching false, after the clock had reached its bound
C34_Witness ==
    /\ FetchSucceeded(ChatRoom)
    /\ Info(ChatRoom).fetch_id.st = "HaveMore"
    /\ ~Info(ChatRoom).fetching
    /\ tasks[ChatRoom] = <<>>
    /\ now = MaxTime

(***************************************************************************)
(* C35: a caller that holds the store's lock and waits for a reply.        *)
(***************************************************************************)
\* the worker stands inside the handling of a task, waiting for the lock
WaitsForLock == work.pc = "sync_once" /\ ~LockFree

\* C35: a caller that holds the store's lock while it waits for the reply of
\* a Requester call is never waited for by the worker: the handling of no
\* task waits for the lock that caller holds
C35_LockedCallReplied ==
    \A c \in Callers :
        lock = Some(c) /\ callers[c].pc = "waiting" => ~WaitsForLock

(***************************************************************************)
(* C36: a message event folded more than once.                             *)
(***************************************************************************)
\* the log of info holds one entry for the message event ev, under its key,
\* with the content of ev, and the index resolves its id to that key
FoldedOnce(info, ev) ==
    /\ Cardinality(EntriesOf(info, ev.event_id)) = 1
    /\ \A i \in EntriesOf(info, ev.event_id) :
          /\ info.messages[i].key = EventKey(ev)
          /\ info.messages[i].msg = MessageFrom(ev)
    /\ ev.event_id \in DOMAIN info.keys
    /\ info.keys[ev.event_id] = [loc |-> "Message", key |-> EventKey(ev)]

\* the chunk holds no edit of the event after position j
NotEditedAfter(chunk, j) ==
    \A k \in (j + 1)..Len(chunk) :
        ~(IsReplacement(chunk[k]) /\ chunk[k].relates_to = chunk[j].event_id)

\* C36: a fold of a message event, by live sync or by a page, leaves the log
\* and the key index with exactly one entry for it, holding the content of
\* this fold; a fold of an event the log already held adds no entry, so the
\* log is as long as after a single fold.
C36_RefoldKeepsOne ==
    [][/\ (last'.op = "sync_message" /\ ~IsReplacement(last'.arg[1])) =>
             LET ev == last'.arg[1]
                 info == get_or_default(rooms', ev.room)
             IN  /\ FoldedOnce(info, ev)
                 /\ last'.arg[2].msg # None =>
                       Len(info.messages) = Len(Info(ev.room).messages)
       /\ (last'.op = "load_insert" /\ last'.ok) =>
             LET chunk == last'.arg[1].chunk
                 info == get_or_default(rooms', last'.room)
             IN  /\ \A j \in 1..Len(chunk) :
                       (~IsReplacement(chunk[j]) /\ NotEditedAfter(chunk, j)) =>
                           FoldedOnce(info, chunk[j])
                 /\ Len(info.messages) =
                       Cardinality({EventKey(chunk[j]) :
                                       j \in {k \in 1..Len(chunk) : ~IsReplacement(chunk[k])}}
                                   \cup LogKeys(Info(last'.room)))]_vars

\* live sync has just folded a message for the first time in the room, a page
\* had folded the same event and an edit of it before: the log holds the one
\* entry, now with the body live sync brought
C36_Witness ==
    /\ last.op = "sync_message"
    /\ ~IsReplacement(last.arg[1])
    /\ last.arg[2].name = None
    /\ last.arg[2].msg # None
    /\ Unwrap(last.arg[2].msg).content # last.arg[1].content
    /\ FoldedOnce(Info(last.room), last.arg[1])
    /\ Info(last.room).fetch_id # NotStarted

(***************************************************************************)
(* C37-C39: the compose state of the window: reply_to, editing, focus and  *)
(* the text box.                                                           *)
(***************************************************************************)
\* C37: a message_command run while the scrollback selects no message
\* returns NoSelectedMessage whatever the action, Cancel included, and
\* leaves reply_to, editing, focus, the text box and the room's RoomInfo as
\* they were.
C37_NoSelectedMessage ==
    [][(/\ last'.op = "message_command"
        /\ scrollback_get_mut(Info(ChatRoom), last'.arg[2]) = None) =>
          /\ last'.arg[3] = "Err(NoSelectedMessage)"
          /\ UNCHANGED <<reply_to, editing, focus, tbox>>
          /\ get_or_default(rooms', ChatRoom) = Info(ChatRoom)]_vars

\* Cancel has just been run with no message selected while a reply and an
\* edit were pending: both still are
C37_Witness ==
    /\ last.op = "message_command"
    /\ last.arg = <<"Cancel", 0, "Err(NoSelectedMessage)">>
    /\ editing # None
    /\ reply_to # None
    /\ tbox # ""

\* C38: a Submit that does not send (the room is not joined, the text is
\* blank, or the send fails) returns NotJoined, Ok(None) or the error, and
\* leaves editing, reply_to, the text box, the log and the homeserver as
\* they were; only a blank text returns Ok(None).  A Submit that sends had
\* non-blank text and leaves editing and reply_to None and the text box
\* empty.
C38_SubmitResetsOnSuccess ==
    [][/\ (last'.op = "send_command_unsent" /\ last'.arg[2] = "Submit") =>
             /\ last'.arg[1] \in {"Err(NotJoined)", "Ok(None)", "Err(Matrix)"}
             /\ last'.arg[1] = "Ok(None)" => is_blank(tbox)
             /\ UNCHANGED <<editing, reply_to, tbox, server>>
             /\ get_or_default(rooms', ChatRoom).messages = Info(ChatRoom).messages
       /\ (last'.op = "send_command" /\ last'.arg[2] = "Submit") =>
             /\ ~is_blank(tbox)
             /\ editing' = None
             /\ reply_to' = None
             /\ tbox' = ""]_vars

\* the send of a Submit has just failed while a reply and an edit were
\* pending and the text box held text: all three are as they were
C38_Witness ==
    /\ last.op = "send_command_unsent"
    /\ last.arg = <<"Err(Matrix)", "Submit">>
    /\ editing # None
    /\ reply_to # None
    /\ ~is_blank(tbox)

\* the selected message can be edited: the local user sent it, it is not
\* redacted and its body is text
Editable(msg) == msg.sender = OwnUser /\ msg.event # "Redacted" /\ IsText(msg.content)

\* C39: Edit on a selected message that the local user sent, that is not
\* redacted and whose body is text sets editing to that message's key, moves
\* the focus to the message bar and loads the body into the text box; on any
\* other selected message it returns a failure and leaves editing, reply_to,
\* focus and the text box as they were.  Nothing else sets editing to a key.
C39_EditOwnText ==
    [][/\ (/\ last'.op = "message_command"
           /\ last'.arg[1] = "Edit"
           /\ scrollback_get_mut(Info(ChatRoom), last'.arg[2]) # None) =>
             LET entry == Info(ChatRoom).messages[last'.arg[2]]
             IN  IF Editable(entry.msg)
                 THEN /\ last'.arg[3] = "Ok"
                      /\ editing' = Some(entry.key)
                      /\ focus' = "MessageBar"
                      /\ tbox' = entry.msg.content
                      /\ UNCHANGED reply_to
                 ELSE /\ last'.arg[3] = "Err(Failure)"
                      /\ UNCHANGED <<editing, reply_to, focus, tbox>>
       /\ (editing' # editing /\ editing' # None) =>
             /\ last'.op = "message_command"
             /\ last'.arg[1] = "Edit"
             /\ last'.arg[3] = "Ok"]_vars

\* Edit has just succeeded on a message of the local user while a reply was
\* pending: editing is its key, the text box holds its body, the focus is
\* on the message bar, and the log also holds a message of another user
C39_Witness ==
    /\ last.op = "message_command"
    /\ last.arg[1] = "Edit"
    /\ last.arg[3] = "Ok"
    /\ reply_to # None
    /\ focus = "MessageBar"
    /\ LET m == Info(ChatRoom).messages
       IN  /\ Len(m) = 2
           /\ editing = Some(m[last.arg[2]].key)
           /\ tbox = m[last.arg[2]].msg.content
           /\ m[last.arg[2]].msg.sender = OwnUser
           /\ \E i \in 1..Len(m) : m[i].msg.sender # OwnUser

(***************************************************************************)
(* C40: the size of an image preview.                                      *)
(***************************************************************************)
\* C40: for positive width, height, bound_width and bound_height whose
\* products fit in 32 bits, fit_dimensions returns a width between 1 and
\* bound_width and a height between 1 and bound_height, and returns the
\* size it was given when that size is within the bounds; find_fit returns
\* no zero width and no zero height.
C40_FitWithinBounds ==
    /\ last.op = "fit_dimensions" =>
          LET width == last.arg[1][1]
              height == last.arg[1][2]
              bound_width == last.arg[1][3]
              bound_height == last.arg[1][4]
              w == last.arg[2][1]
              h == last.arg[2][2]
          IN  /\ 1 <= w /\ w <= bound_width
              /\ 1 <= h /\ h <= bound_height
              /\ (width <= bound_width /\ height <= bound_height) =>
                    (w = width /\ h = height)
    /\ last.op = "find_fit" => (last.arg[2][1] >= 1 /\ last.arg[2][2] >= 1)

====
